---------------------------- MODULE Spec2Model ----------------------------
(***************************************************************************)
(* Model of the chunked-upload pipeline of cpanbaidu (src/cpanbaidu/       *)
(* Upload.py) together with the request gateway it calls (Auth.py,         *)
(* model/Base.py).                                                         *)
(*                                                                         *)
(* Two entry points are modelled:                                          *)
(*   mode = "single" : UploadFile.upload_file -> _upload_file_multi, one   *)
(*                     file, block tasks run on a ThreadPoolExecutor;      *)
(*   mode = "batch"  : UploadFile.upload_folder, one file task per         *)
(*                     enumerated file on a ThreadPoolExecutor, each task  *)
(*                     running _upload_file_loop.                          *)
(* Every remote call is a step whose response is chosen by the remote      *)
(* side from a small set; the local file may shrink while a pipeline runs. *)
(***************************************************************************)
EXTENDS Integers, Sequences, FiniteSets, TLC

\* ------------------------------------------------------------------ bounds
NFiles == 2          \* at most this many files are enumerated by upload_folder
MaxGranules == 2     \* file sizes are 0 .. MaxGranules granules of 3 MiB
MaxWorkers == 2      \* largest explicit max_workers / file_max_workers argument
MaxCpu == 2          \* largest os.cpu_count()

\* --------------------------------------------------------------- constants
MiB == 1024 * 1024
Granule == 3 * MiB
FileSizes == {k * Granule : k \in 0..MaxGranules}

NoneWorkers == 0     \* models max_workers=None (the argument was not given)

\* ------------------------------------------------------------------ helpers
Min(a, b) == IF a < b THEN a ELSE b

CeilDiv(a, b) == (a + b - 1) \div b

\* The empty dict {} of a JSON body.
EmptyDict == [k \in {} |-> 0]

\* Python truthiness of a dict.
Truthy(d) == DOMAIN d # {}

Has(d, k) == k \in DOMAIN d

\* ---------------------------------------------------------------- hashing
\* md5 of block idx of file f: one distinct value per (file, block).
BlockMd5(f, idx) == <<f, idx>>

\* an md5 that is no block's md5 (a corrupted/other block echoed by the server)
WrongMd5 == <<0, 0>>

\* variant: only the full blocks are hashed, a shorter last block is dropped
get_file_md5_blocksFloor(f, size, block_size) ==
    [i \in 1..(size \div block_size) |-> BlockMd5(f, i - 1)]

\* utils.md5.get_file_md5_blocks: ordered md5 list, one per block of
\* block_size bytes; ceil(size / block_size) entries, none for an empty file.
get_file_md5_blocks(f, size, block_size) ==
    [i \in 1..CeilDiv(size, block_size) |-> BlockMd5(f, i - 1)]

\* utils.md5.calculate_md5: md5 of the whole content (the content of file f
\* is identified by f and its length)
calculate_md5(f, size) == <<"md5", f, size>>

\* utils.md5.calculate_slice_md5: md5 of the leading 256 KiB
calculate_slice_md5(f, size) == <<"md5", f, Min(size, 256 * 1024)>>

\* json.dumps(block_list, separators=(",", ":")): the JSON text of the list,
\* as its sequence of tokens
RECURSIVE json_items(_)
json_items(l) ==
    IF l = <<>> THEN <<>>
    ELSE IF Len(l) = 1 THEN <<l[1]>>
    ELSE <<l[1], ",">> \o json_items(Tail(l))

json_dumps(l) == <<"[">> \o json_items(l) \o <<"]">>

\* variant: a read always yields block_size bytes
ReadLenWholeBlock(size, idx, block_size) == block_size

\* f.seek(idx * block_size); f.read(block_size): number of bytes obtained
\* from a file that currently has `size` bytes.
ReadLen(size, idx, block_size) ==
    IF idx * block_size >= size THEN 0
    ELSE Min(block_size, size - idx * block_size)

\* ------------------------------------------------------- block size by tier
\* _upload_file_multi, lines 367-375
MultiBlockSize(ui) ==
    (IF ~ui.present THEN 4
     ELSE IF ui.viptype = 1 THEN 16
     ELSE IF ui.viptype = 2 THEN 32
     ELSE 4) * 1024 * 1024

\* _upload_file_loop, line 470
LoopBlockSize == 4 * 1024 * 1024

\* ------------------------------------------------------------ the gateway
\* BaseResponse.check_state: validation passes only for errno == 0
\* (a body without errno fails validation as well).
BaseResponseValid(body) == Has(body, "errno") /\ body.errno = 0

\* BaseResponse.model_dump(): the declared fields request_id and errmsg are
\* always present (None when the body lacks them), extra fields are kept.
model_dump(body) ==
    [k \in DOMAIN body \cup {"request_id", "errmsg"} |->
        IF k \in DOMAIN body THEN body[k] ELSE "None"]

\* a request argument: None, or a value
NoneVal == <<>>
Some(v) == <<v>>

\* {k: v for k, v in d.items() if v is not None} (Auth.request, lines 39-41)
DropNone(d) == [k \in {j \in DOMAIN d : Len(d[j]) > 0} |-> d[k]]

\* Auth.request: access_token is added to the URL parameters, the None
\* values are removed from params and data, and the request is sent
Auth_request(params, data) ==
    [params |-> DropNone([k \in DOMAIN params \cup {"access_token"} |->
                            IF k = "access_token" THEN Some("token")
                            ELSE params[k]]),
     data |-> DropNone(data)]

\* OAuth._do_request: the request is sent as it is given
do_request(params, data) == [params |-> params, data |-> data]

\* the requests built by Upload.precreate, locateupload, upload_part, create
PrecreateRequest(path, size, block_list, rt) ==
    Auth_request([method |-> Some("precreate")],
                 [path |-> Some(path), size |-> Some(size), isdir |-> Some(0),
                  block_list |-> Some(block_list), autoinit |-> Some(1),
                  rtype |-> Some(rt), uploadid |-> NoneVal,
                  local_ctime |-> NoneVal, local_mtime |-> NoneVal])

LocateRequest(path, upid) ==
    do_request([method |-> Some("locateupload"), appid |-> Some(250528),
                path |-> Some(path), uploadid |-> Some(upid),
                upload_version |-> Some("2.0")],
               EmptyDict)

UploadPartRequest(path, upid, partseq) ==
    Auth_request([method |-> Some("upload"), type |-> Some("tmpfile"),
                  path |-> Some(path), uploadid |-> Some(upid),
                  partseq |-> Some(partseq)],
                 EmptyDict)

CreateRequest(path, size, block_list, upid, rt) ==
    Auth_request([method |-> Some("create")],
                 [path |-> Some(path), size |-> Some(size), isdir |-> Some("0"),
                  block_list |-> Some(block_list), uploadid |-> Some(upid),
                  rtype |-> Some(rt), local_ctime |-> NoneVal,
                  local_mtime |-> NoneVal, zip_quality |-> NoneVal,
                  zip_sign |-> NoneVal, is_revision |-> Some(0),
                  mode |-> NoneVal, exif_info |-> NoneVal])

\* Auth.request_json: raises ValueError when the HTTP exchange fails;
\* otherwise returns the validated model dump, and when validation raises it
\* logs and returns the raw body (line 73).
request_json(resp) ==
    IF resp.http # "ok"
    THEN [raised |-> TRUE, error |-> "ValueError", value |-> EmptyDict]
    ELSE IF BaseResponseValid(resp.body)
         THEN [raised |-> FALSE, error |-> "", value |-> model_dump(resp.body)]
         ELSE [raised |-> FALSE, error |-> "", value |-> resp.body]

\* OAuth._do_request(...).json(), as used by Upload.locateupload:
\* raises AuthError when the HTTP exchange fails, else the parsed body.
do_request_json(resp) ==
    IF resp.http # "ok"
    THEN [raised |-> TRUE, error |-> "AuthError", value |-> EmptyDict]
    ELSE [raised |-> FALSE, error |-> "", value |-> resp.body]

\* ---------------------------------------------------- remote side responses
\* precreate: accepted with an uploadid, rejected with errno 2, empty body,
\* or the HTTP exchange fails.
PrecreateResponses(f) ==
    { [http |-> "ok", body |-> [errno |-> 0, uploadid |-> f]],
      [http |-> "ok", body |-> [errno |-> 2]],
      [http |-> "ok", body |-> EmptyDict],
      [http |-> "fail", body |-> EmptyDict] }

LocateResponses ==
    { [http |-> "ok", body |-> [servers |-> <<[server |-> "s1"], [server |-> "s2"]>>]],
      [http |-> "ok", body |-> [servers |-> <<>>]],
      [http |-> "ok", body |-> [error_code |-> 31023]],
      [http |-> "fail", body |-> EmptyDict] }

UploadPartResponses(f, idx) ==
    { [http |-> "ok", body |-> [md5 |-> BlockMd5(f, idx)]],
      [http |-> "ok", body |-> [md5 |-> WrongMd5]],
      [http |-> "ok", body |-> [error_code |-> 31299]],
      [http |-> "fail", body |-> EmptyDict] }

CreateResponses ==
    { [http |-> "ok", body |-> [errno |-> 0, fs_id |-> 1]],
      [http |-> "ok", body |-> [errno |-> 2]],
      [http |-> "fail", body |-> EmptyDict] }

\* ----------------------------------------------- checks made by the pipeline
\* lines 394 / 489: `if not res1 or res1.get("errno") != 0`
PrecreateRejected(res1) ==
    ~Truthy(res1) \/ ~Has(res1, "errno") \/ res1.errno # 0

\* lines 404 / 499: `if not res2 or not res2.get("servers")`
NoServers(res2) ==
    ~Truthy(res2) \/ ~Has(res2, "servers") \/ res2.servers = <<>>

\* variant: the last server of the set is taken
LastServer(res2) == res2.servers[Len(res2.servers)].server

\* lines 407 / 502: res2["servers"][0]["server"]
FirstServer(res2) == res2.servers[1].server

\* variant: only the presence of md5 is checked, not its value
PartRejectedNoCompare(res, expected_md5) ==
    ~Truthy(res) \/ ~Has(res, "md5")

\* UploadFile.upload_part, lines 341-344: the two raise conditions
PartRejected(res, expected_md5) ==
    \/ ~Truthy(res) \/ ~Has(res, "md5")
    \/ res.md5 # expected_md5

\* the exception a failed upload_part call ends in: AuthError from the
\* gateway, or the Exception of line 342 / line 344
PartError(resp) ==
    IF resp.http # "ok" THEN "AuthError"
    ELSE IF ~Truthy(resp.body) \/ ~Has(resp.body, "md5") THEN "part upload failed"
    ELSE "part md5 differs"

\* lines 411-413 / 648-650: the pool size
PoolSize(cpu, workers, n) ==
    Min(IF workers = NoneWorkers THEN cpu - 1 ELSE workers, n)

\* values a pipeline can hand back
NoneResult == [kind |-> "None", value |-> EmptyDict, error |-> ""]
Returned(v) == [kind |-> "dict", value |-> v, error |-> ""]
Raised(e) == [kind |-> "raise", value |-> EmptyDict, error |-> e]
Pending == [kind |-> "pending", value |-> EmptyDict, error |-> ""]

\* ------------------------------------------------------------------- state
VARIABLES
    mode,          \* "single" (upload_file) or "batch" (upload_folder)
    nfiles,        \* number of files: 1, or len(files_to_upload)
    userinfo,      \* UploadFile.userinfo: [present, viptype]
    cpu_count,     \* os.cpu_count()
    max_workers,   \* max_workers (single) / file_max_workers (batch) argument
    chunk_max_workers, \* batch: the chunk_max_workers argument
    bs,            \* the bs argument: 4, 16 or 32
    rtype,         \* the rtype argument: 1, 2 or 3
    fsize,         \* fsize[f]: current size in bytes of local file f
    pc,            \* pc[f]: position of the pipeline of file f
    plan,          \* plan[f]: [file_size, block_size, block_list]
    uploadid,      \* uploadid[f]: res1["uploadid"], 0 before precreate
    server_url,    \* server_url[f], "" before locateupload
    idx,           \* idx[f]: loop index of the chunk-reading loop
    chunk,         \* chunk[f][i + 1]: number of bytes read for block i
    progress,      \* progress[f]: [uploaded, total]
    calls,         \* calls[f]: the remote calls answered so far, in order
    result,        \* result[f]: what the pipeline handed back
    task,          \* single: task[i] state of the block task (future) of idx i
    tmp,           \* single: tmp[i] value of progress["uploaded"] read by task i
    seen,          \* single: futures already yielded by as_completed
    pool,          \* single: max_workers of the block ThreadPoolExecutor
    bpc,           \* batch: position of upload_folder
    file_workers,  \* batch: max_workers of the file ThreadPoolExecutor
    results,       \* batch: the results dict
    results_lock,  \* batch: file task holding results_lock, 0 when free
    \* upload_folder, enumeration of the local tree (lines 597-626)
    tree,              \* the entries under local_folder: [path, is_file]
    exclude_patterns,  \* the exclude_patterns argument, None as <<>>
    pending,           \* entries folder_path.rglob("*") has not yielded yet
    files_to_upload,   \* the relative paths collected so far
    epc,               \* "idle", "walk" or "done"
    \* FileList.get_file_list
    remote,        \* number of entries of the remote directory: 1..remote
    limit,         \* the limit argument
    cursor,        \* start of the next page
    all_list,      \* entries collected so far
    has_more,      \* has_more (bool)
    has_more_int,  \* has_more of the last page
    tries,         \* consecutive failed attempts
    lpc,           \* "idle", "loop" or "returned"
    \* OAuth / Auth: the token of the Auth object and the threads using it
    now,           \* time.time(), in seconds
    access_token,  \* self.access_token
    refresh_token, \* self.refresh_token
    expires_at,    \* self.expires_at
    issued,        \* token endpoint: number of token pairs issued so far
    apc,           \* apc[t]: position of thread t in Auth.request
    asent,         \* asent[t]: the refresh_token thread t sent, "" if none
    aresp,         \* aresp[t]: the answer thread t received
    aout,          \* aout[t]: what get_access_token handed to thread t
    refresh_log,   \* refresh_token values presented to the token endpoint
    \* DownFile.downfile
    dir_size,            \* number of entries of the parent directory
    filebd,              \* the path asked for, as the number of its entry
    file_list_response,  \* what File.list_files returned
    fs_id,               \* the fs_id found, 0 before
    dpc                  \* position in downfile

enumvars == <<tree, exclude_patterns, pending, files_to_upload, epc>>
listvars == <<remote, limit, cursor, all_list, has_more, has_more_int, tries,
              lpc>>

authvars == <<now, access_token, refresh_token, expires_at, issued, apc,
              asent, aresp, aout, refresh_log>>

downvars == <<dir_size, filebd, file_list_response, fs_id, dpc>>

uploadvars ==
    <<mode, nfiles, userinfo, cpu_count, max_workers, chunk_max_workers,
      bs, rtype, fsize, pc, plan, uploadid, server_url, idx, chunk,
      progress, calls, result, task, tmp, seen, pool, bpc, file_workers,
      results, results_lock>>

vars == <<uploadvars, enumvars, listvars, authvars, downvars>>

filevars == <<pc, plan, uploadid, server_url, idx, chunk, progress, calls,
              result>>
taskvars == <<task, tmp, seen, pool>>
batchvars == <<bpc, file_workers, results, results_lock>>
\* what no step of an upload changes: its arguments, and the state of the
\* tree enumeration, of get_file_list, of the token and of downfile
inputs == <<mode, nfiles, userinfo, cpu_count, max_workers,
            chunk_max_workers, bs, rtype, enumvars, listvars, authvars,
            downvars>>

Files == 1..nfiles

UserInfos ==
    {[present |-> FALSE, viptype |-> 0]}
        \cup {[present |-> TRUE, viptype |-> v] : v \in 0..2}

\* os.cpu_count() is read only when the workers argument is None
\* (lines 411-412, 648-649); it is left at 1 when the argument is given.
WorkerInputs ==
    {<<c, NoneWorkers>> : c \in 1..MaxCpu} \cup {<<1, w>> : w \in 1..MaxWorkers}

\* the directory uploaded in batch mode: files of two granules (two blocks)
\* and of one granule (one block) in turn
TreeFileSize(f) == ((f % 2) + 1) * Granule

\* _upload_file_loop never reads userinfo: the batches are those of a
\* top-tier account
BatchUserInfos == {u \in UserInfos : u.present /\ u.viptype = 2}

\* bs is one of Literal[4, 16, 32] and rtype one of Literal[1, 2, 3].  No
\* pipeline branches on bs, rtype or chunk_max_workers, so a run takes them
\* along with its workers argument k instead of independently of it:
\* <<bs, rtype, chunk_max_workers>> for k not given, 1, 2, 3, ...
ArgSettings(k) ==
    <<IF k % 3 = 0 THEN 4 ELSE IF k % 3 = 1 THEN 16 ELSE 32, (k % 3) + 1, k>>

NoPlan ==
    [file_size |-> 0, block_size |-> 0, block_list |-> <<>>,
     content_md5 |-> <<>>, slice_md5 |-> <<>>]

EmptyResults ==
    [success |-> <<>>, failed |-> <<>>, success_count |-> 0,
     failed_count |-> 0, total |-> 0, errno |-> -1]

\* the tree enumeration is not running
IdleEnum ==
    /\ tree = {} /\ exclude_patterns = <<>> /\ pending = {}
    /\ files_to_upload = <<>> /\ epc = "idle"

\* get_file_list is not running
IdleList ==
    /\ remote = 0 /\ limit = 1 /\ cursor = 0 /\ all_list = <<>>
    /\ has_more = TRUE /\ has_more_int = 0 /\ tries = 0 /\ lpc = "idle"

\* no thread is using the Auth object
IdleAuth ==
    /\ now = 0 /\ access_token = "" /\ refresh_token = "" /\ expires_at = 0
    /\ issued = 0 /\ apc = <<>> /\ asent = <<>> /\ aresp = <<>>
    /\ aout = <<>> /\ refresh_log = <<>>

\* no download is running
IdleDown ==
    /\ dir_size = 0 /\ filebd = 0 /\ file_list_response = EmptyDict
    /\ fs_id = 0 /\ dpc = "idle"

Init ==
    /\ IdleEnum /\ IdleList /\ IdleAuth /\ IdleDown
    /\ mode \in {"single", "batch"}
    /\ nfiles \in (IF mode = "single" THEN {1} ELSE 0..NFiles)
    /\ userinfo \in (IF mode = "single" THEN UserInfos ELSE BatchUserInfos)
    /\ \E w \in WorkerInputs : cpu_count = w[1] /\ max_workers = w[2]
    /\ bs = ArgSettings(max_workers)[1]
    /\ rtype = ArgSettings(max_workers)[2]
    /\ chunk_max_workers = IF mode = "single" THEN NoneWorkers
                           ELSE ArgSettings(max_workers)[3]
    /\ fsize \in (IF mode = "single" THEN [1..nfiles -> FileSizes]
                                    ELSE {[f \in 1..nfiles |-> TreeFileSize(f)]})
    /\ pc = [f \in 1..nfiles |-> IF mode = "single" THEN "plan" ELSE "queued"]
    /\ plan = [f \in 1..nfiles |-> NoPlan]
    /\ uploadid = [f \in 1..nfiles |-> 0]
    /\ server_url = [f \in 1..nfiles |-> ""]
    /\ idx = [f \in 1..nfiles |-> 0]
    /\ chunk = [f \in 1..nfiles |-> <<>>]
    /\ progress = [f \in 1..nfiles |-> [uploaded |-> 0, total |-> 0]]
    /\ calls = [f \in 1..nfiles |-> <<>>]
    /\ result = [f \in 1..nfiles |-> Pending]
    /\ task = <<>>
    /\ tmp = <<>>
    /\ seen = {}
    /\ pool = 0
    /\ bpc = IF mode = "single" THEN "unused" ELSE "start"
    /\ file_workers = 0
    /\ results = EmptyResults
    /\ results_lock = 0

\* ------------------------------------------------ steps shared by pipelines
\* The code of precreate / locateupload / create is the same in
\* _upload_file_multi and _upload_file_loop; `fin` is where the pipeline goes
\* when it returns ("done" for upload_file, "record" for a batch file task).

Plan(f, block_size) ==
    /\ plan' = [plan EXCEPT ![f] =
                  [file_size |-> fsize[f], block_size |-> block_size,
                   content_md5 |-> calculate_md5(f, fsize[f]),
                   slice_md5 |-> calculate_slice_md5(f, fsize[f]),
                   block_list |-> get_file_md5_blocks(f, fsize[f], block_size)]]
    /\ pc' = [pc EXCEPT ![f] = "precreate"]
    /\ UNCHANGED <<uploadid, server_url, idx, chunk, progress, calls, result>>

\* variant: a rejected precreate is tried again
PrecreateStepRetry(f, r, fin) ==
    LET out == request_json(r) IN
    /\ calls' = [calls EXCEPT ![f] = Append(@,
                   [op |-> "precreate", size |-> plan[f].file_size,
                    block_list |-> json_dumps(plan[f].block_list),
                    rtype |-> rtype,
                    req |-> PrecreateRequest(f, plan[f].file_size,
                               json_dumps(plan[f].block_list), rtype),
                    resp |-> r])]
    /\ IF out.raised
       THEN /\ result' = [result EXCEPT ![f] = Raised(out.error)]
            /\ pc' = [pc EXCEPT ![f] = fin]
            /\ UNCHANGED uploadid
       ELSE IF PrecreateRejected(out.value)
       THEN /\ Len(calls[f]) < 2
            /\ UNCHANGED <<result, pc, uploadid>>
       ELSE /\ uploadid' = [uploadid EXCEPT ![f] = out.value.uploadid]
            /\ pc' = [pc EXCEPT ![f] = "locate"]
            /\ UNCHANGED result
    /\ UNCHANGED <<plan, server_url, idx, chunk, progress>>

\* variant: the uploadid is kept in one place shared by all pipelines
PrecreateStepShared(f, r, fin) ==
    LET out == request_json(r) IN
    /\ calls' = [calls EXCEPT ![f] = Append(@,
                   [op |-> "precreate", size |-> plan[f].file_size,
                    block_list |-> json_dumps(plan[f].block_list),
                    rtype |-> rtype,
                    req |-> PrecreateRequest(f, plan[f].file_size,
                               json_dumps(plan[f].block_list), rtype),
                    resp |-> r])]
    /\ IF out.raised
       THEN /\ result' = [result EXCEPT ![f] = Raised(out.error)]
            /\ pc' = [pc EXCEPT ![f] = fin]
            /\ UNCHANGED uploadid
       ELSE IF PrecreateRejected(out.value)
       THEN /\ result' = [result EXCEPT ![f] = NoneResult]
            /\ pc' = [pc EXCEPT ![f] = fin]
            /\ UNCHANGED uploadid
       ELSE /\ uploadid' = [g \in DOMAIN uploadid |-> out.value.uploadid]
            /\ pc' = [pc EXCEPT ![f] = "locate"]
            /\ UNCHANGED result
    /\ UNCHANGED <<plan, server_url, idx, chunk, progress>>

PrecreateStep(f, r, fin) ==
    LET out == request_json(r) IN
    /\ calls' = [calls EXCEPT ![f] = Append(@,
                   [op |-> "precreate", size |-> plan[f].file_size,
                    block_list |-> json_dumps(plan[f].block_list),
                    rtype |-> rtype,
                    req |-> PrecreateRequest(f, plan[f].file_size,
                               json_dumps(plan[f].block_list), rtype),
                    resp |-> r])]
    /\ IF out.raised
       THEN /\ result' = [result EXCEPT ![f] = Raised(out.error)]
            /\ pc' = [pc EXCEPT ![f] = fin]
            /\ UNCHANGED uploadid
       ELSE IF PrecreateRejected(out.value)
       THEN /\ result' = [result EXCEPT ![f] = NoneResult]
            /\ pc' = [pc EXCEPT ![f] = fin]
            /\ UNCHANGED uploadid
       ELSE /\ uploadid' = [uploadid EXCEPT ![f] = out.value.uploadid]
            /\ pc' = [pc EXCEPT ![f] = "locate"]
            /\ UNCHANGED result
    /\ UNCHANGED <<plan, server_url, idx, chunk, progress>>

LocateStep(f, r, fin, next) ==
    LET out == do_request_json(r) IN
    /\ calls' = [calls EXCEPT ![f] = Append(@,
                   [op |-> "locateupload", uploadid |-> uploadid[f],
                    req |-> LocateRequest(f, uploadid[f]), resp |-> r])]
    /\ IF out.raised
       THEN /\ result' = [result EXCEPT ![f] = Raised(out.error)]
            /\ pc' = [pc EXCEPT ![f] = fin]
            /\ UNCHANGED server_url
       ELSE IF NoServers(out.value)
       THEN /\ result' = [result EXCEPT ![f] = NoneResult]
            /\ pc' = [pc EXCEPT ![f] = fin]
            /\ UNCHANGED server_url
       ELSE /\ server_url' = [server_url EXCEPT ![f] = FirstServer(out.value)]
            /\ pc' = [pc EXCEPT ![f] = next]
            /\ UNCHANGED result
    /\ progress' = [progress EXCEPT ![f] =
                      IF out.raised \/ NoServers(out.value) THEN @
                      ELSE [uploaded |-> 0, total |-> Len(plan[f].block_list)]]
    /\ UNCHANGED <<plan, uploadid, idx, chunk>>

\* variant: create is sent the block hashes in the order the blocks completed
CreateStepCompletionOrder(f, r, fin) ==
    LET out == request_json(r)
        parts == SelectSeq(calls[f], LAMBDA c : c.op = "upload_part")
        done_order == [k \in 1..Len(parts) |->
                         plan[f].block_list[parts[k].partseq + 1]] IN
    /\ calls' = [calls EXCEPT ![f] = Append(@,
                   [op |-> "create", size |-> plan[f].file_size,
                    block_list |-> json_dumps(done_order),
                    uploadid |-> uploadid[f], rtype |-> rtype,
                    req |-> CreateRequest(f, plan[f].file_size,
                               json_dumps(done_order), uploadid[f], rtype),
                    resp |-> r])]
    /\ result' = [result EXCEPT ![f] =
                    IF out.raised THEN Raised(out.error)
                                  ELSE Returned(out.value)]
    /\ pc' = [pc EXCEPT ![f] = fin]
    /\ UNCHANGED <<plan, uploadid, server_url, idx, chunk, progress>>

CreateStep(f, r, fin) ==
    LET out == request_json(r) IN
    /\ calls' = [calls EXCEPT ![f] = Append(@,
                   [op |-> "create", size |-> plan[f].file_size,
                    block_list |-> json_dumps(plan[f].block_list),
                    uploadid |-> uploadid[f], rtype |-> rtype,
                    req |-> CreateRequest(f, plan[f].file_size,
                               json_dumps(plan[f].block_list), uploadid[f],
                               rtype),
                    resp |-> r])]
    /\ result' = [result EXCEPT ![f] =
                    IF out.raised THEN Raised(out.error)
                                  ELSE Returned(out.value)]
    /\ pc' = [pc EXCEPT ![f] = fin]
    /\ UNCHANGED <<plan, uploadid, server_url, idx, chunk, progress>>

\* Upload.upload_part + the checks of UploadFile.upload_part: TRUE when the
\* call returns normally (no exception).
PartOk(f, i, r) ==
    /\ r.http = "ok"
    /\ ~PartRejected(r.body, plan[f].block_list[i + 1])

\* variant: the chunk is cut with the bs argument, not with the block size
\* the hashes were computed with
PartCallBs(f, i, r) ==
    [op |-> "upload_part", partseq |-> i, url |-> server_url[f],
     uploadid |-> uploadid[f], offset |-> i * bs * 1024 * 1024,
     len |-> ReadLen(fsize[f], i, bs * 1024 * 1024),
     req |-> UploadPartRequest(f, uploadid[f], i), resp |-> r]

\* the call carries the chunk read for block i: its offset in the file and
\* its length
PartCall(f, i, r) ==
    [op |-> "upload_part", partseq |-> i, url |-> server_url[f],
     uploadid |-> uploadid[f], offset |-> i * plan[f].block_size,
     len |-> chunk[f][i + 1],
     req |-> UploadPartRequest(f, uploadid[f], i), resp |-> r]

\* The local file is re-opened and read after it was hashed; meanwhile it can
\* be truncated by another process before or while the chunks are read.
\* (Modelled for upload_file; the files of a batch are taken to be stable
\* while upload_folder runs.)
FileShrinks(f) ==
    /\ mode = "single"
    /\ pc[f] \in {"pool", "submit"}
    /\ \E s \in FileSizes : s < fsize[f] /\ fsize' = [fsize EXCEPT ![f] = s]
    /\ UNCHANGED <<inputs, filevars, taskvars, batchvars>>

\* -------------------------------------- upload_file -> _upload_file_multi
Multi_Plan(f) ==
    /\ mode = "single" /\ pc[f] = "plan"
    /\ Plan(f, MultiBlockSize(userinfo))
    /\ UNCHANGED <<inputs, fsize, taskvars, batchvars>>

Multi_Precreate(f) ==
    /\ mode = "single" /\ pc[f] = "precreate"
    /\ \E r \in PrecreateResponses(f) : PrecreateStep(f, r, "done")
    /\ UNCHANGED <<inputs, fsize, taskvars, batchvars>>

Multi_Locate(f) ==
    /\ mode = "single" /\ pc[f] = "locate"
    /\ \E r \in LocateResponses : LocateStep(f, r, "done", "pool")
    /\ UNCHANGED <<inputs, fsize, taskvars, batchvars>>

\* lines 409-417: pool size, ThreadPoolExecutor(max_workers); the
\* constructor raises ValueError for max_workers <= 0.  (The progress dict of
\* line 415 is built in LocateStep, right after server_url.)
Multi_OpenPool(f) ==
    LET n == Len(plan[f].block_list)
        w == PoolSize(cpu_count, max_workers, n) IN
    /\ mode = "single" /\ pc[f] = "pool"
    /\ IF w <= 0
       THEN /\ result' = [result EXCEPT ![f] = Raised("ValueError")]
            /\ pc' = [pc EXCEPT ![f] = "done"]
            /\ UNCHANGED <<task, tmp, pool>>
       ELSE /\ pool' = w
            /\ task' = [i \in 0..(n - 1) |-> "unsubmitted"]
            /\ tmp' = [i \in 0..(n - 1) |-> 0]
            /\ pc' = [pc EXCEPT ![f] = "submit"]
            /\ UNCHANGED result
    /\ UNCHANGED <<inputs, fsize, plan, uploadid, server_url, idx, chunk, progress,
                   calls, seen, batchvars>>

\* lines 419-435: one iteration of the chunk-reading loop; an empty chunk
\* or the end of block_list ends the loop.
Multi_Submit(f) ==
    LET i == idx[f] IN
    /\ mode = "single" /\ pc[f] = "submit"
    /\ IF i < Len(plan[f].block_list)
            /\ ReadLen(fsize[f], i, plan[f].block_size) > 0
       THEN /\ task' = [task EXCEPT ![i] = "queued"]
            /\ chunk' = [chunk EXCEPT ![f] =
                           Append(@, ReadLen(fsize[f], i, plan[f].block_size))]
            /\ idx' = [idx EXCEPT ![f] = i + 1]
            /\ UNCHANGED pc
       ELSE /\ pc' = [pc EXCEPT ![f] = "wait"]
            /\ UNCHANGED <<task, idx, chunk>>
    /\ UNCHANGED <<inputs, fsize, plan, uploadid, server_url, progress, calls,
                   result, tmp, seen, pool, batchvars>>

Queued == {i \in DOMAIN task : task[i] = "queued"}
Active == {i \in DOMAIN task : task[i] \in {"inflight", "loaded"}}
Finished == {i \in DOMAIN task : task[i] \in {"ok", "failed"}}
Submitted == {i \in DOMAIN task : task[i] # "unsubmitted"}

\* a pool thread takes the oldest queued task and issues its upload_part call
Task_Start(f, i) ==
    /\ mode = "single" /\ pc[f] \in {"submit", "wait", "shutdown"}
    /\ i \in Queued /\ \A j \in Queued : i <= j
    /\ Cardinality(Active) < pool
    /\ task' = [task EXCEPT ![i] = "inflight"]
    /\ UNCHANGED <<inputs, fsize, filevars, tmp, seen, pool, batchvars>>

\* UploadFile.upload_part lines 334-346: the response arrives; a rejected
\* response raises inside the task, an accepted one goes on to the counter
\* (progress["uploaded"] is read here and written back in Task_Incr).
Task_Response(f, i) ==
    /\ mode = "single" /\ i \in DOMAIN task /\ task[i] = "inflight"
    /\ \E r \in UploadPartResponses(f, i) :
         /\ calls' = [calls EXCEPT ![f] = Append(@, PartCall(f, i, r))]
         /\ IF PartOk(f, i, r)
            THEN /\ task' = [task EXCEPT ![i] = "loaded"]
                 /\ tmp' = [tmp EXCEPT ![i] = progress[f].uploaded]
            ELSE /\ task' = [task EXCEPT ![i] = "failed"]
                 /\ UNCHANGED tmp
    /\ UNCHANGED <<inputs, fsize, pc, plan, uploadid, server_url, idx, chunk,
                   progress, result, seen, pool, batchvars>>

\* line 347: progress["uploaded"] += 1 completes; the task returns idx
Task_Incr(f, i) ==
    /\ mode = "single" /\ i \in DOMAIN task /\ task[i] = "loaded"
    /\ progress' = [progress EXCEPT ![f].uploaded = tmp[i] + 1]
    /\ task' = [task EXCEPT ![i] = "ok"]
    /\ UNCHANGED <<inputs, fsize, pc, plan, uploadid, server_url, idx, chunk, calls,
                   result, tmp, seen, pool, batchvars>>

\* variant: the exception of a failed future is swallowed and the loop goes on
Multi_AsCompletedSwallow(f, i) ==
    /\ mode = "single" /\ pc[f] = "wait"
    /\ i \in Finished \ seen
    /\ seen' = seen \cup {i}
    /\ UNCHANGED <<inputs, fsize, filevars, task, tmp, pool, batchvars>>

\* lines 437-442: as_completed yields a finished future; a failed one makes
\* the pipeline print and return None (leaving the `with` blocks).
Multi_AsCompleted(f, i) ==
    /\ mode = "single" /\ pc[f] = "wait"
    /\ i \in Finished \ seen
    /\ IF task[i] = "failed"
       THEN /\ result' = [result EXCEPT ![f] = NoneResult]
            /\ pc' = [pc EXCEPT ![f] = "shutdown"]
            /\ UNCHANGED seen
       ELSE /\ seen' = seen \cup {i}
            /\ UNCHANGED <<result, pc>>
    /\ UNCHANGED <<inputs, fsize, plan, uploadid, server_url, idx, chunk, progress,
                   calls, task, tmp, pool, batchvars>>

\* variant: the file is finalized only when the progress counter has reached
\* its total, otherwise the pipeline returns None
Multi_AllDoneCounted(f) ==
    /\ mode = "single" /\ pc[f] = "wait"
    /\ seen = Submitted
    /\ IF progress[f].uploaded = progress[f].total
       THEN /\ pc' = [pc EXCEPT ![f] = "create"]
            /\ UNCHANGED result
       ELSE /\ pc' = [pc EXCEPT ![f] = "done"]
            /\ result' = [result EXCEPT ![f] = NoneResult]
    /\ UNCHANGED <<inputs, fsize, plan, uploadid, server_url, idx, chunk, progress,
                   calls, taskvars, batchvars>>

\* every submitted future was yielded without an exception: leave the pool
Multi_AllDone(f) ==
    /\ mode = "single" /\ pc[f] = "wait"
    /\ seen = Submitted
    /\ pc' = [pc EXCEPT ![f] = "create"]
    /\ UNCHANGED <<inputs, fsize, plan, uploadid, server_url, idx, chunk, progress,
                   calls, result, taskvars, batchvars>>

\* the early return leaves `with ThreadPoolExecutor`: shutdown(wait=True)
\* returns once every submitted task has run
Multi_Shutdown(f) ==
    /\ mode = "single" /\ pc[f] = "shutdown"
    /\ Queued = {} /\ Active = {}
    /\ pc' = [pc EXCEPT ![f] = "done"]
    /\ UNCHANGED <<inputs, fsize, plan, uploadid, server_url, idx, chunk, progress,
                   calls, result, taskvars, batchvars>>

Multi_Create(f) ==
    /\ mode = "single" /\ pc[f] = "create"
    /\ \E r \in CreateResponses : CreateStep(f, r, "done")
    /\ UNCHANGED <<inputs, fsize, taskvars, batchvars>>

NextSingle ==
    \/ \E f \in Files : Multi_Plan(f)
    \/ \E f \in Files : Multi_Precreate(f)
    \/ \E f \in Files : Multi_Locate(f)
    \/ \E f \in Files : Multi_OpenPool(f)
    \/ \E f \in Files : Multi_Submit(f)
    \/ \E f \in Files : \E i \in DOMAIN task : Task_Start(f, i)
    \/ \E f \in Files : \E i \in DOMAIN task : Task_Response(f, i)
    \/ \E f \in Files : \E i \in DOMAIN task : Task_Incr(f, i)
    \/ \E f \in Files : \E i \in DOMAIN task : Multi_AsCompleted(f, i)
    \/ \E f \in Files : Multi_AllDone(f)
    \/ \E f \in Files : Multi_Shutdown(f)
    \/ \E f \in Files : Multi_Create(f)

\* ------------------------------------- upload_folder -> _upload_file_loop
\* variant: the file pool is sized and built before the files are counted
Batch_StartPoolFirst ==
    LET w == PoolSize(cpu_count, max_workers, nfiles) IN
    /\ mode = "batch" /\ bpc = "start"
    /\ results' = [EmptyResults EXCEPT !.total = nfiles]
    /\ IF w <= 0
       THEN bpc' = "raised" /\ UNCHANGED file_workers
       ELSE bpc' = "running" /\ file_workers' = w
    /\ UNCHANGED <<inputs, fsize, filevars, taskvars, results_lock>>

\* lines 628-653: count the enumerated files, build the results dict, size
\* the file pool.  (ThreadPoolExecutor raises ValueError for size <= 0.)
Batch_Start ==
    LET w == PoolSize(cpu_count, max_workers, nfiles) IN
    /\ mode = "batch" /\ bpc = "start"
    /\ IF nfiles = 0
       THEN /\ results' = [EmptyResults EXCEPT !.total = 0]
            /\ bpc' = "returned"
            /\ UNCHANGED file_workers
       ELSE /\ results' = [EmptyResults EXCEPT !.total = nfiles]
            /\ IF w <= 0
               THEN bpc' = "raised" /\ UNCHANGED file_workers
               ELSE bpc' = "running" /\ file_workers' = w
    /\ UNCHANGED <<inputs, fsize, filevars, taskvars, results_lock>>

QueuedFiles == {f \in Files : pc[f] = "queued"}
RunningFiles == {f \in Files : pc[f] \notin {"queued", "done"}}

\* variant: the file task takes results_lock before it runs its pipeline
File_StartLocked(f) ==
    /\ mode = "batch" /\ bpc = "running"
    /\ f \in QueuedFiles /\ \A g \in QueuedFiles : f <= g
    /\ Cardinality(RunningFiles) < file_workers
    /\ results_lock = 0
    /\ results_lock' = f
    /\ pc' = [pc EXCEPT ![f] = "plan"]
    /\ UNCHANGED <<inputs, fsize, plan, uploadid, server_url, idx, chunk,
                   progress, calls, result, taskvars, bpc, file_workers,
                   results>>

\* a pool thread takes the oldest submitted file task (lines 711-715)
File_Start(f) ==
    /\ mode = "batch" /\ bpc = "running"
    /\ f \in QueuedFiles /\ \A g \in QueuedFiles : f <= g
    /\ Cardinality(RunningFiles) < file_workers
    /\ pc' = [pc EXCEPT ![f] = "plan"]
    /\ UNCHANGED <<inputs, fsize, plan, uploadid, server_url, idx, chunk, progress,
                   calls, result, taskvars, batchvars>>

Loop_Plan(f) ==
    /\ mode = "batch" /\ pc[f] = "plan"
    /\ Plan(f, LoopBlockSize)
    /\ UNCHANGED <<inputs, fsize, taskvars, batchvars>>

Loop_Precreate(f) ==
    /\ mode = "batch" /\ pc[f] = "precreate"
    /\ \E r \in PrecreateResponses(f) : PrecreateStep(f, r, "record")
    /\ UNCHANGED <<inputs, fsize, taskvars, batchvars>>

Loop_Locate(f) ==
    /\ mode = "batch" /\ pc[f] = "locate"
    /\ \E r \in LocateResponses : LocateStep(f, r, "record", "blocks")
    /\ UNCHANGED <<inputs, fsize, taskvars, batchvars>>

\* the loop may go on: idx is inside block_list and the chunk is not empty
LoopContinues(f) ==
    /\ idx[f] < Len(plan[f].block_list)
    /\ ReadLen(fsize[f], idx[f], plan[f].block_size) > 0

\* lines 506-510: seek and read chunk idx; upload_part is called with it
Loop_ReadChunk(f) ==
    /\ mode = "batch" /\ pc[f] = "blocks"
    /\ LoopContinues(f)
    /\ chunk' = [chunk EXCEPT ![f] =
                   Append(@, ReadLen(fsize[f], idx[f], plan[f].block_size))]
    /\ pc' = [pc EXCEPT ![f] = "inflight"]
    /\ UNCHANGED <<inputs, fsize, plan, uploadid, server_url, idx, progress,
                   calls, result, taskvars, batchvars>>

\* variant: a failed block cancels the file tasks that have not started
Loop_UploadPartCancels(f) ==
    LET i == idx[f] IN
    /\ mode = "batch" /\ pc[f] = "inflight"
    /\ \E r \in UploadPartResponses(f, i) :
         /\ calls' = [calls EXCEPT ![f] = Append(@, PartCall(f, i, r))]
         /\ IF PartOk(f, i, r)
            THEN /\ progress' = [progress EXCEPT ![f].uploaded = @ + 1]
                 /\ idx' = [idx EXCEPT ![f] = i + 1]
                 /\ pc' = [pc EXCEPT ![f] = "blocks"]
                 /\ UNCHANGED result
            ELSE /\ result' = [result EXCEPT ![f] = NoneResult]
                 /\ pc' = [g \in DOMAIN pc |->
                             IF g = f THEN "record"
                             ELSE IF pc[g] = "queued" THEN "done" ELSE pc[g]]
                 /\ UNCHANGED <<progress, idx>>
    /\ UNCHANGED <<inputs, fsize, plan, uploadid, server_url, chunk, taskvars,
                   batchvars>>

\* variant: a failed block is sent once more before the pipeline gives up
Loop_UploadPartRetry(f) ==
    LET i == idx[f] IN
    /\ mode = "batch" /\ pc[f] = "inflight"
    /\ \E r \in UploadPartResponses(f, i) :
         /\ calls' = [calls EXCEPT ![f] = Append(@, PartCall(f, i, r))]
         /\ IF PartOk(f, i, r)
            THEN /\ progress' = [progress EXCEPT ![f].uploaded = @ + 1]
                 /\ idx' = [idx EXCEPT ![f] = i + 1]
                 /\ pc' = [pc EXCEPT ![f] = "blocks"]
                 /\ UNCHANGED result
            ELSE IF calls[f][Len(calls[f])].op = "upload_part"
                    /\ calls[f][Len(calls[f])].partseq = i
            THEN /\ result' = [result EXCEPT ![f] = NoneResult]
                 /\ pc' = [pc EXCEPT ![f] = "record"]
                 /\ UNCHANGED <<progress, idx>>
            ELSE UNCHANGED <<pc, result, progress, idx>>
    /\ UNCHANGED <<inputs, fsize, plan, uploadid, server_url, chunk, taskvars,
                   batchvars>>

\* lines 511-524: the upload_part call of chunk idx returns and is counted
\* (the loop goes on to the next chunk before any other call is made); an
\* exception of upload_part is printed and the pipeline returns None.
Loop_UploadPart(f) ==
    LET i == idx[f] IN
    /\ mode = "batch" /\ pc[f] = "inflight"
    /\ \E r \in UploadPartResponses(f, i) :
         /\ calls' = [calls EXCEPT ![f] = Append(@, PartCall(f, i, r))]
         /\ IF PartOk(f, i, r)
            THEN /\ progress' = [progress EXCEPT ![f].uploaded = @ + 1]
                 /\ idx' = [idx EXCEPT ![f] = i + 1]
                 /\ pc' = [pc EXCEPT ![f] = "blocks"]
                 /\ UNCHANGED result
            ELSE /\ result' = [result EXCEPT ![f] = NoneResult]
                 /\ pc' = [pc EXCEPT ![f] = "record"]
                 /\ UNCHANGED <<progress, idx>>
    /\ UNCHANGED <<inputs, fsize, plan, uploadid, server_url, chunk, taskvars,
                   batchvars>>

\* lines 526-535: the loop ended (block_list exhausted or `break`)
Loop_Create(f) ==
    /\ mode = "batch" /\ pc[f] = "blocks"
    /\ ~LoopContinues(f)
    /\ \E r \in CreateResponses : CreateStep(f, r, "record")
    /\ UNCHANGED <<inputs, fsize, taskvars, batchvars>>

\* variant: any result that is not an exception counts as a success
IsSuccessNotRaised(res) == res.kind # "raise"

\* variant: the error text is always taken from the exception
FailedEntryStr(f, res) == [local_path |-> f, error |-> res.error]

\* the entry upload_single_file appends for the outcome of the pipeline
\* (lines 671-704): success for a truthy result, failed for None or an
\* exception.
IsSuccess(res) == res.kind = "dict" /\ Truthy(res.value)

SuccessEntry(f, res) == [local_path |-> f, result |-> res.value]

FailedEntry(f, res) ==
    [local_path |-> f,
     error |-> IF res.kind = "raise" THEN res.error ELSE "upload returned None"]

\* variant: the entry is appended to its list without results_lock
Record_AppendUnlocked(f) ==
    /\ mode = "batch" /\ pc[f] = "record"
    /\ results' =
         IF IsSuccess(result[f])
         THEN [results EXCEPT !.success = Append(@, SuccessEntry(f, result[f]))]
         ELSE [results EXCEPT !.failed = Append(@, FailedEntry(f, result[f]))]
    /\ pc' = [pc EXCEPT ![f] = "locked"]
    /\ UNCHANGED <<inputs, fsize, plan, uploadid, server_url, idx, chunk,
                   progress, calls, result, taskvars, bpc, file_workers,
                   results_lock>>

\* UploadFile.upload_part line 346: `if progress["lock"]:` tests the Lock
\* object for truth; no thread ever acquires the progress lock of file f
ProgressLockHeld(f) == FALSE

\* `with results_lock:` entered, entry appended to its list
Record_Append(f) ==
    /\ mode = "batch" /\ pc[f] = "record"
    /\ results_lock = 0
    /\ results_lock' = f
    /\ results' =
         IF IsSuccess(result[f])
         THEN [results EXCEPT !.success = Append(@, SuccessEntry(f, result[f]))]
         ELSE [results EXCEPT !.failed = Append(@, FailedEntry(f, result[f]))]
    /\ pc' = [pc EXCEPT ![f] = "locked"]
    /\ UNCHANGED <<inputs, fsize, plan, uploadid, server_url, idx, chunk, progress,
                   calls, result, taskvars, bpc, file_workers>>

\* counter incremented, lock released, file task returns
Record_Count(f) ==
    /\ mode = "batch" /\ pc[f] = "locked"
    /\ results_lock = f
    /\ results_lock' = 0
    /\ results' =
         IF IsSuccess(result[f])
         THEN [results EXCEPT !.success_count = @ + 1]
         ELSE [results EXCEPT !.failed_count = @ + 1]
    /\ pc' = [pc EXCEPT ![f] = "done"]
    /\ UNCHANGED <<inputs, fsize, plan, uploadid, server_url, idx, chunk, progress,
                   calls, result, taskvars, bpc, file_workers>>

\* variant: upload_folder returns as soon as one file task has finished
Batch_ReturnEarly ==
    /\ mode = "batch" /\ bpc = "running"
    /\ \E f \in Files : pc[f] = "done"
    /\ results' = [results EXCEPT !.errno = 0]
    /\ bpc' = "returned"
    /\ UNCHANGED <<inputs, fsize, filevars, taskvars, file_workers,
                   results_lock>>

\* lines 718-739: every future was yielded, the pool is left, the summary is
\* printed and results is returned
Batch_Return ==
    /\ mode = "batch" /\ bpc = "running"
    /\ \A f \in Files : pc[f] = "done"
    /\ results' = [results EXCEPT !.errno = 0]
    /\ bpc' = "returned"
    /\ UNCHANGED <<inputs, fsize, filevars, taskvars, file_workers,
                   results_lock>>

NextBatch ==
    \/ Batch_Start
    \/ Batch_Return
    \/ \E f \in Files : File_Start(f)
    \/ \E f \in Files : Loop_Plan(f)
    \/ \E f \in Files : Loop_Precreate(f)
    \/ \E f \in Files : Loop_Locate(f)
    \/ \E f \in Files : Loop_ReadChunk(f)
    \/ \E f \in Files : Loop_UploadPart(f)
    \/ \E f \in Files : Loop_Create(f)
    \/ \E f \in Files : Record_Append(f)
    \/ \E f \in Files : Record_Count(f)

Next ==
    \/ NextSingle
    \/ NextBatch
    \/ \E f \in Files : FileShrinks(f)

Spec == Init /\ [][Next]_vars

\* no upload is running
IdleUpload ==
    /\ mode = "none" /\ nfiles = 0
    /\ userinfo = [present |-> FALSE, viptype |-> 0]
    /\ cpu_count = 1 /\ max_workers = NoneWorkers
    /\ chunk_max_workers = NoneWorkers /\ bs = 4 /\ rtype = 1
    /\ fsize = <<>> /\ pc = <<>> /\ plan = <<>> /\ uploadid = <<>>
    /\ server_url = <<>> /\ idx = <<>> /\ chunk = <<>> /\ progress = <<>>
    /\ calls = <<>> /\ result = <<>>
    /\ task = <<>> /\ tmp = <<>> /\ seen = {} /\ pool = 0
    /\ bpc = "unused" /\ file_workers = 0
    /\ results = EmptyResults /\ results_lock = 0

\* ------------------------ upload_folder: the files to upload (597-626)
\* names of files and directories, as sequences of characters
Name_a_tmp == <<"a", ".", "t", "m", "p">>
Name_keep_txt == <<"k", "e", "e", "p", ".", "t", "x", "t">>
Name_x_js == <<"x", ".", "j", "s">>
Name_node_modules ==
    <<"n", "o", "d", "e", "_", "m", "o", "d", "u", "l", "e", "s">>
Name_src == <<"s", "r", "c">>

\* the pattern *.tmp
Pattern_tmp == <<"*", ".", "t", "m", "p">>

\* the regular files a local tree may hold, by path relative to the root
CandidateFiles ==
    { <<Name_a_tmp>>, <<Name_keep_txt>>, <<Name_node_modules, Name_x_js>>,
      <<Name_src, Name_a_tmp>>, <<Name_src, Name_node_modules>> }

\* the entries of the tree that holds these files: the files and the
\* directories on their paths
TreeOf(files) ==
    {[path |-> p, is_file |-> TRUE] : p \in files}
    \cup UNION {{[path |-> SubSeq(p, 1, k), is_file |-> FALSE] :
                    k \in 1..(Len(p) - 1)} : p \in files}

\* the exclude_patterns arguments tried: None, *.tmp, node_modules, both,
\* *, ?.js
PatternLists ==
    { <<>>, <<Pattern_tmp>>, <<Name_node_modules>>,
      <<Pattern_tmp, Name_node_modules>>, <<<<"*">>>>,
      <<<<"?", ".", "j", "s">>>> }

\* fnmatch.fnmatch(name, pat) for patterns of literal characters, * and ?
RECURSIVE fnmatch(_, _)
fnmatch(name, pat) ==
    IF pat = <<>> THEN name = <<>>
    ELSE IF Head(pat) = "*"
         THEN \/ fnmatch(name, Tail(pat))
              \/ name # <<>> /\ fnmatch(Tail(name), pat)
    ELSE IF Head(pat) = "?"
         THEN name # <<>> /\ fnmatch(Tail(name), Tail(pat))
    ELSE /\ name # <<>> /\ Head(name) = Head(pat)
         /\ fnmatch(Tail(name), Tail(pat))

\* variant: only the base name is matched against the patterns
should_excludeNameOnly(path, patterns) ==
    \E i \in 1..Len(patterns) : fnmatch(path[Len(path)], patterns[i])

\* should_exclude (lines 604-618): for each pattern, the base name, then
\* every part of the path relative to the root
RECURSIVE should_exclude(_, _)
should_exclude(path, patterns) ==
    IF patterns = <<>> THEN FALSE
    ELSE IF fnmatch(path[Len(path)], Head(patterns)) THEN TRUE
    ELSE IF \E k \in 1..Len(path) : fnmatch(path[k], Head(patterns)) THEN TRUE
    ELSE should_exclude(path, Tail(patterns))

InitEnum ==
    /\ IdleUpload /\ IdleList /\ IdleAuth /\ IdleDown
    /\ \E files \in SUBSET CandidateFiles : tree = TreeOf(files)
    /\ exclude_patterns \in PatternLists
    /\ pending = tree
    /\ files_to_upload = <<>>
    /\ epc = "walk"

\* lines 620-626: rglob yields an entry (in no particular order); a file
\* that is not excluded is collected
Enum_Visit(item) ==
    /\ epc = "walk" /\ item \in pending
    /\ pending' = pending \ {item}
    /\ files_to_upload' =
         IF item.is_file /\ ~should_exclude(item.path, exclude_patterns)
         THEN Append(files_to_upload, item.path)
         ELSE files_to_upload
    /\ UNCHANGED <<tree, exclude_patterns, epc, uploadvars, listvars, authvars,
                   downvars>>

\* line 628: rglob is exhausted, total_files = len(files_to_upload)
Enum_Done ==
    /\ epc = "walk" /\ pending = {}
    /\ epc' = "done"
    /\ UNCHANGED <<tree, exclude_patterns, pending, files_to_upload,
                   uploadvars, listvars, authvars,
                   downvars>>

NextEnum ==
    \/ \E item \in pending : Enum_Visit(item)
    \/ Enum_Done

SpecEnum == InitEnum /\ [][NextEnum]_vars

\* ----------------------------------------------- FileList.get_file_list
MaxEntries == 3      \* the remote directory holds at most this many entries
MaxLimit == 2        \* largest limit argument (page size)

max_tries == 5

\* the answers of the service to listall(start, limit) on a directory of n
\* entries: the page at start with has_more and the next cursor, an error
\* body, an empty body, or a failed HTTP exchange
ListallResponses(start, lim, n) ==
    { [http |-> "ok",
       body |-> [errno |-> 0,
                 list |-> [k \in 1..(Min(start + lim, n) - start) |-> start + k],
                 has_more |-> IF start + lim < n THEN 1 ELSE 0,
                 cursor |-> start + lim]],
      [http |-> "ok", body |-> [errno |-> 31034]],
      [http |-> "ok", body |-> EmptyDict],
      [http |-> "fail", body |-> EmptyDict] }

\* dict.get(k, default)
Get(d, k, default) == IF Has(d, k) THEN d[k] ELSE default

InitList ==
    /\ IdleUpload /\ IdleEnum /\ IdleAuth /\ IdleDown
    /\ remote \in 0..MaxEntries
    /\ limit \in 1..MaxLimit
    /\ cursor = 0
    /\ all_list = <<>>
    /\ has_more = TRUE /\ has_more_int = 0
    /\ tries = 0
    /\ lpc = "loop"

\* variant: a successful page leaves the failure counter as it is
List_RequestNoReset ==
    /\ lpc = "loop" /\ has_more /\ tries < max_tries
    /\ \E r \in ListallResponses(cursor, limit, remote) :
         LET out == request_json(r) IN
         IF out.raised \/ ~Truthy(out.value)
         THEN /\ tries' = tries + 1
              /\ UNCHANGED <<all_list, has_more, has_more_int, cursor>>
         ELSE /\ all_list' = all_list \o Get(out.value, "list", <<>>)
              /\ has_more_int' = Get(out.value, "has_more", 0)
              /\ has_more' = (Get(out.value, "has_more", 0) = 1)
              /\ cursor' = Get(out.value, "cursor", 0)
              /\ UNCHANGED tries
    /\ UNCHANGED <<remote, limit, lpc, uploadvars, enumvars, authvars,
                   downvars>>

\* lines 78-109: one pass of the while loop; File.listall goes through
\* Auth.request_json
List_Request ==
    /\ lpc = "loop" /\ has_more /\ tries < max_tries
    /\ \E r \in ListallResponses(cursor, limit, remote) :
         LET out == request_json(r) IN
         IF out.raised \/ ~Truthy(out.value)
         THEN /\ tries' = tries + 1
              /\ UNCHANGED <<all_list, has_more, has_more_int, cursor>>
         ELSE /\ all_list' = all_list \o Get(out.value, "list", <<>>)
              /\ has_more_int' = Get(out.value, "has_more", 0)
              /\ has_more' = (Get(out.value, "has_more", 0) = 1)
              /\ cursor' = Get(out.value, "cursor", 0)
              /\ tries' = 0
    /\ UNCHANGED <<remote, limit, lpc, uploadvars, enumvars, authvars,
                   downvars>>

\* lines 110-121: the loop has ended, the result dict is returned
List_Return ==
    /\ lpc = "loop" /\ ~(has_more /\ tries < max_tries)
    /\ lpc' = "returned"
    /\ UNCHANGED <<remote, limit, cursor, all_list, has_more, has_more_int,
                   tries, uploadvars, enumvars, authvars,
                   downvars>>

\* the dict of lines 113-121
get_file_list_result ==
    [errno |-> 0, guid |-> 0,
     pagenum |-> (Len(all_list) + limit - 1) \div limit,
     has_more |-> has_more_int, total |-> Len(all_list), list |-> all_list]

NextList ==
    \/ List_Request
    \/ List_Return

SpecList == InitList /\ [][NextList]_vars

\* get_file_list runs in the calling thread, which keeps running: every
\* pass of the loop (with its time.sleep after a failure) and the return
\* are eventually taken
SpecListFair == SpecList /\ WF_vars(NextList)

\* ------------------------------------------- OAuth: the token of Auth
MaxThreads == 2      \* threads that call Auth.request at the same time
MaxTicks == 3        \* the clock advances at most this many times

REFRESH_THRESHOLD == 60
Tick == REFRESH_THRESHOLD \div 2        \* seconds per step of the clock
TwentyYears == 20 * 365 * 24 * 3600

Threads == 1..MaxThreads

\* the token pairs the token endpoint issues, in order
AccessTokens == <<"at1", "at2", "at3", "at4", "at5", "at6">>
RefreshTokens == <<"rt1", "rt2", "rt3", "rt4", "rt5", "rt6">>

\* JSON values of a token answer: a string, an integer, a non-empty list
JStr(s) == [type |-> "str", s |-> s, n |-> 0]
JInt(n) == [type |-> "int", s |-> "", n |-> n]
JList == [type |-> "list", s |-> "", n |-> 0]

\* Python truthiness of such a value
PyTruthy(v) ==
    CASE v.type = "str" -> v.s # ""
      [] v.type = "int" -> v.n # 0
      [] OTHER -> TRUE

\* int(float(s)) for the texts used here; any other text raises ValueError
IntOfFloat(s) ==
    CASE s = "90" -> [ok |-> TRUE, n |-> 90]
      [] s = "0" -> [ok |-> TRUE, n |-> 0]
      [] s = "-1" -> [ok |-> TRUE, n |-> 0 - 1]
      [] OTHER -> [ok |-> FALSE, n |-> 0]

\* OAuth._expire2int: the seconds, or AuthError
_expire2int(expire_value) ==
    LET bad == [raised |-> TRUE, t |-> 0]
        range(t) == IF t < 0 \/ t >= TwentyYears THEN bad
                    ELSE [raised |-> FALSE, t |-> t] IN
    IF ~PyTruthy(expire_value) THEN bad
    ELSE IF expire_value.type = "int" THEN range(expire_value.n)
    ELSE IF expire_value.type = "str"
         THEN IF IntOfFloat(expire_value.s).ok
              THEN range(IntOfFloat(expire_value.s).n) ELSE bad
    ELSE bad

\* OAuth._get_key: data.get(key) or data.get("data", {}).get(key) or ""
_get_key(data, key) ==
    IF Has(data, key) /\ PyTruthy(data[key]) THEN data[key]
    ELSE IF /\ Has(data, "data") /\ Has(data["data"], key)
            /\ PyTruthy(data["data"][key])
         THEN data["data"][key]
    ELSE JStr("")

\* variant: the tokens are stored before the answer is validated
_update_tokenEager(data, self, t) ==
    LET a == _get_key(data, "access_token")
        r == _get_key(data, "refresh_token")
        e == _expire2int(_get_key(data, "expires_in")) IN
    [raised |-> e.raised \/ ~PyTruthy(a) \/ ~PyTruthy(r),
     access_token |-> a.s, refresh_token |-> r.s,
     expires_at |-> IF e.raised THEN self.expires_at ELSE t + e.t]

\* OAuth._update_token at time t on the object fields `self`: whether it
\* raised AuthError, and the fields afterwards
_update_token(data, self, t) ==
    LET a == _get_key(data, "access_token")
        r == _get_key(data, "refresh_token")
        e == _expire2int(_get_key(data, "expires_in")) IN
    IF e.raised \/ ~PyTruthy(a) \/ ~PyTruthy(r)
    THEN [raised |-> TRUE, access_token |-> self.access_token,
          refresh_token |-> self.refresh_token,
          expires_at |-> self.expires_at]
    ELSE [raised |-> FALSE, access_token |-> a.s, refresh_token |-> r.s,
          expires_at |-> t + e.t]

\* OAuth.is_token_valid
is_token_valid == expires_at > now + REFRESH_THRESHOLD

\* the expires_in values of a token answer
ExpireValues ==
    {JInt(90), JInt(Tick), JInt(0), JInt(0 - 1), JInt(TwentyYears),
     JStr("90"), JStr("0"), JStr("abc"), JList}

\* the answers of the token endpoint when it issues pair k: the pair with
\* some expires_in, the pair nested under "data", an answer that lacks a
\* field
IssuingBodies(k) ==
    {[access_token |-> JStr(AccessTokens[k]),
      refresh_token |-> JStr(RefreshTokens[k]), expires_in |-> e] :
        e \in ExpireValues}
    \cup {[data |-> [access_token |-> JStr(AccessTokens[k]),
                     refresh_token |-> JStr(RefreshTokens[k]),
                     expires_in |-> JInt(90)]],
          [access_token |-> JStr(AccessTokens[k]),
           refresh_token |-> JStr(RefreshTokens[k])],
          [access_token |-> JStr(AccessTokens[k]), expires_in |-> JInt(90)],
          [refresh_token |-> JStr(RefreshTokens[k]), expires_in |-> JInt(90)]}

\* the answers that issue nothing: an error body, a body that is not JSON,
\* a failed exchange
RefusedResponses ==
    {[http |-> "ok", body |-> [error |-> JStr("invalid_grant")]],
     [http |-> "notjson", body |-> EmptyDict],
     [http |-> "fail", body |-> EmptyDict]}

\* a refresh_token is accepted once: only the one issued last is current
Current(sent) == issued > 0 /\ sent = RefreshTokens[issued]

NoResponse == [http |-> "none", body |-> EmptyDict]
TokenPending == [kind |-> "pending", token |-> "", error |-> ""]
TokenReturned(tok) == [kind |-> "str", token |-> tok, error |-> ""]
TokenRaised(e) == [kind |-> "raise", token |-> "", error |-> e]

\* OAuth.get_access_token lines 252-254 on the token handed back
get_access_token(tok) ==
    IF tok = "" THEN TokenRaised("AuthError") ELSE TokenReturned(tok)

InitAuth ==
    /\ IdleUpload /\ IdleEnum /\ IdleList /\ IdleDown
    /\ now = 0
    /\ access_token \in {"", AccessTokens[1]}
    /\ refresh_token \in {"", RefreshTokens[1]}
    /\ expires_at \in {0, 3 * Tick}
    /\ issued = 1
    /\ apc = [t \in Threads |-> "idle"]
    /\ asent = [t \in Threads |-> ""]
    /\ aresp = [t \in Threads |-> NoResponse]
    /\ aout = [t \in Threads |-> TokenPending]
    /\ refresh_log = <<>>

\* Auth.request line 35 -> get_access_token -> _refresh_token_if_needed
\* lines 212-240: a valid token is handed back at once; otherwise the
\* refresh request is sent with self.refresh_token, or, without one, the
\* user is asked to authorize again (fetch_token)
Auth_Start(t) ==
    /\ apc[t] = "idle"
    /\ IF is_token_valid
       THEN /\ apc' = [apc EXCEPT ![t] = "done"]
            /\ aout' = [aout EXCEPT ![t] = get_access_token(access_token)]
            /\ UNCHANGED <<asent, refresh_log>>
       ELSE IF refresh_token = ""
       THEN /\ apc' = [apc EXCEPT ![t] = "authorize"]
            /\ UNCHANGED <<asent, aout, refresh_log>>
       ELSE /\ apc' = [apc EXCEPT ![t] = "refreshing"]
            /\ asent' = [asent EXCEPT ![t] = refresh_token]
            /\ refresh_log' = Append(refresh_log, refresh_token)
            /\ UNCHANGED aout
    /\ UNCHANGED <<now, access_token, refresh_token, expires_at, issued, aresp,
                   uploadvars, enumvars, listvars,
                   downvars>>

\* the answer arrives (_do_request(...).json(), lines 220-240), then
\* _update_token (242), return self.access_token (243) and the check of
\* get_access_token (252-254)
Auth_Response(t) ==
    /\ apc[t] \in {"refreshing", "authorize"}
    /\ \E r \in RefusedResponses
              \cup (IF /\ apc[t] = "authorize" \/ Current(asent[t])
                       /\ issued < Len(AccessTokens)
                    THEN {[http |-> "ok", body |-> b] :
                             b \in IssuingBodies(issued + 1)}
                    ELSE {}) :
         LET self == [access_token |-> access_token,
                      refresh_token |-> refresh_token,
                      expires_at |-> expires_at]
             u == _update_token(r.body, self, now) IN
         /\ aresp' = [aresp EXCEPT ![t] = r]
         /\ issued' = IF r \in RefusedResponses THEN issued ELSE issued + 1
         /\ IF r.http = "fail"
            THEN /\ aout' = [aout EXCEPT ![t] = TokenRaised("AuthError")]
                 /\ UNCHANGED <<access_token, refresh_token, expires_at>>
            ELSE IF r.http = "notjson"
            THEN /\ aout' = [aout EXCEPT ![t] = TokenRaised("JSONDecodeError")]
                 /\ UNCHANGED <<access_token, refresh_token, expires_at>>
            ELSE /\ access_token' = u.access_token
                 /\ refresh_token' = u.refresh_token
                 /\ expires_at' = u.expires_at
                 /\ aout' = [aout EXCEPT ![t] =
                               IF u.raised THEN TokenRaised("AuthError")
                               ELSE get_access_token(u.access_token)]
    /\ apc' = [apc EXCEPT ![t] = "done"]
    /\ UNCHANGED <<now, asent, refresh_log, uploadvars, enumvars, listvars,
                   downvars>>

\* time passes
Clock_Tick ==
    /\ now < MaxTicks * Tick
    /\ now' = now + Tick
    /\ UNCHANGED <<access_token, refresh_token, expires_at, issued, apc, asent,
                   aresp, aout, refresh_log, uploadvars, enumvars, listvars,
                   downvars>>

NextAuth ==
    \/ \E t \in Threads : Auth_Start(t)
    \/ \E t \in Threads : Auth_Response(t)
    \/ Clock_Tick

SpecAuth == InitAuth /\ [][NextAuth]_vars

\* ------------------------------------------------------ DownFile.downfile
MaxExtra == 2        \* entries a directory may hold beyond one page

\* File.list_files: limit: int = 100
list_limit == 100

\* sizes of the parent directory: a few entries, or about one page
DirSizes == 0..MaxExtra \cup (list_limit - 1)..(list_limit + MaxExtra)

\* entry i of the parent directory, in the order the service lists it
\* (every fourth entry is a directory)
Entry(i) ==
    [path |-> i, isdir |-> IF i % 4 = 0 THEN 1 ELSE 0, fs_id |-> 1000 + i]

\* the answers of the service to list(dir, start, limit) on a directory of
\* n entries: the page, an error body, a failed exchange
ListResponses(n, start, lim) ==
    { [http |-> "ok",
       body |-> [errno |-> 0,
                 list |-> [k \in 1..(Min(start + lim, n) - start) |->
                              Entry(start + k)]]],
      [http |-> "ok", body |-> [errno |-> 0 - 9]],
      [http |-> "fail", body |-> EmptyDict] }

\* the answers to filemetas(fsid=[id], dlink=1)
MetaResponses(id) ==
    { [http |-> "ok",
       body |-> [errno |-> 0,
                 list |-> <<[fs_id |-> id, dlink |-> <<"dlink", id>>]>>]],
      [http |-> "ok", body |-> [errno |-> 0, list |-> <<>>]],
      [http |-> "ok", body |-> [errno |-> 0 - 6]],
      [http |-> "fail", body |-> EmptyDict] }

\* filebd is a path of the directory, or (dir_size + 1) a path that is not
\* in it
InitDown ==
    /\ IdleUpload /\ IdleEnum /\ IdleList /\ IdleAuth
    /\ dir_size \in DirSizes
    /\ filebd \in 1..(dir_size + 1)
    /\ file_list_response = EmptyDict
    /\ fs_id = 0
    /\ dpc = "list"

\* line 61: self.file.list_files(dir=parent_dir, web=0), with the defaults
\* start = 0 and limit = 100; a failed exchange raises ValueError
Down_List ==
    /\ dpc = "list"
    /\ \E r \in ListResponses(dir_size, 0, list_limit) :
         LET out == request_json(r) IN
         IF out.raised
         THEN /\ dpc' = "raised"
              /\ UNCHANGED file_list_response
         ELSE /\ dpc' = "scan"
              /\ file_list_response' = out.value
    /\ UNCHANGED <<dir_size, filebd, fs_id, uploadvars, enumvars, listvars,
                   authvars>>

\* lines 63-74: the list is searched for the path as a regular file
Down_Resolve ==
    /\ dpc = "scan"
    /\ IF ~Truthy(file_list_response) \/ ~Has(file_list_response, "list")
       THEN /\ dpc' = "unlisted"
            /\ UNCHANGED fs_id
       ELSE LET l == file_list_response["list"]
                hits == {k \in 1..Len(l) :
                            l[k].path = filebd /\ l[k].isdir = 0} IN
            IF hits = {}
            THEN /\ dpc' = "missing"
                 /\ UNCHANGED fs_id
            ELSE /\ dpc' = "metas"
                 /\ fs_id' = l[CHOOSE k \in hits :
                                  \A j \in hits : k <= j].fs_id
    /\ UNCHANGED <<dir_size, filebd, file_list_response, uploadvars, enumvars,
                   listvars, authvars>>

\* lines 75-80: filemetas for the fs_id; then the download starts (81-101)
Down_Metas ==
    /\ dpc = "metas"
    /\ \E r \in MetaResponses(fs_id) :
         LET out == request_json(r) IN
         dpc' = IF out.raised THEN "raised"
                ELSE IF \/ ~Truthy(out.value) \/ ~Has(out.value, "list")
                        \/ out.value["list"] = <<>>
                     THEN "nometa"
                ELSE "download"
    /\ UNCHANGED <<dir_size, filebd, file_list_response, fs_id, uploadvars,
                   enumvars, listvars, authvars>>

NextDown ==
    \/ Down_List
    \/ Down_Resolve
    \/ Down_Metas

SpecDown == InitDown /\ [][NextDown]_vars

\* =========================================================================
\* Properties
\* =========================================================================
\* ---- vocabulary over the call log
Calls(f, op) == {k \in 1..Len(calls[f]) : calls[f][k].op = op}

\* the answered upload_part call c of file f did not echo the planned md5
MismatchedPart(f, c) ==
    /\ c.op = "upload_part" /\ c.resp.http = "ok"
    /\ \/ ~Has(c.resp.body, "md5")
       \/ c.resp.body.md5 # plan[f].block_list[c.partseq + 1]

\* the answered upload_part call c of file f echoed the planned md5
VerifiedPart(f, c) ==
    /\ c.op = "upload_part" /\ c.resp.http = "ok"
    /\ Has(c.resp.body, "md5")
    /\ c.resp.body.md5 = plan[f].block_list[c.partseq + 1]

\* the answered upload_part call c failed in any way
FailedPart(f, c) == c.op = "upload_part" /\ ~VerifiedPart(f, c)

HasMismatch(f) == \E k \in Calls(f, "upload_part") : MismatchedPart(f, calls[f][k])
HasFailedPart(f) == \E k \in Calls(f, "upload_part") : FailedPart(f, calls[f][k])

\* precreate was answered with a non-zero errno
AnnounceRejected(f) ==
    \E k \in Calls(f, "precreate") :
        /\ calls[f][k].resp.http = "ok"
        /\ Has(calls[f][k].resp.body, "errno")
        /\ calls[f][k].resp.body.errno # 0

\* locateupload was answered with an empty or missing server set
EndpointSetEmpty(f) ==
    \E k \in Calls(f, "locateupload") :
        /\ calls[f][k].resp.http = "ok"
        /\ \/ ~Has(calls[f][k].resp.body, "servers")
           \/ calls[f][k].resp.body.servers = <<>>

\* create was answered with a non-zero errno
FinalizeRejected(f) ==
    \E k \in Calls(f, "create") :
        /\ calls[f][k].resp.http = "ok"
        /\ Has(calls[f][k].resp.body, "errno")
        /\ calls[f][k].resp.body.errno # 0

InSuccess(f) == \E k \in 1..Len(results.success) : results.success[k].local_path = f
InFailed(f) == \E k \in 1..Len(results.failed) : results.failed[k].local_path = f

\* ---- C1 ------------------------------------------------------------------
\* C1: in both pipelines, once a block-transfer response lacks the md5 field
\* or echoes an md5 other than the planned hash of its block, create is never
\* called for that file and the pipeline hands back a failure (None), which a
\* batch records under 'failed'.
C1_MismatchNeverFinalized ==
    \A f \in Files :
        HasMismatch(f) =>
            /\ Calls(f, "create") = {}
            /\ result[f].kind \in {"pending", "None"}
            /\ pc[f] = "done" => result[f].kind = "None"
            /\ bpc = "returned" => InFailed(f) /\ ~InSuccess(f)

\* a pipeline has returned after a mismatched block arrived behind a verified one
C1_Witness ==
    \E f \in Files :
        /\ pc[f] = "done" /\ HasMismatch(f)
        /\ \E k \in Calls(f, "upload_part") : VerifiedPart(f, calls[f][k])

\* ---- C2 ------------------------------------------------------------------
\* C2: create is called for a file only after every block index of its plan
\* had an upload_part call whose echoed md5 matched the planned hash.
C2_FinalizeOnlyAfterAllBlocks ==
    \A f \in Files :
        Calls(f, "create") # {} =>
            \A i \in 0..(Len(plan[f].block_list) - 1) :
                \E k \in Calls(f, "upload_part") :
                    calls[f][k].partseq = i /\ VerifiedPart(f, calls[f][k])

\* ---- C3 ------------------------------------------------------------------
\* C3: a create response with a non-zero errno is a hard failure of the file:
\* upload_file does not hand the response back as its result, and
\* upload_folder lists the file under 'failed', not under 'success'.
C3_FinalizeErrnoIsFailure ==
    \A f \in Files :
        FinalizeRejected(f) =>
            /\ result[f].kind # "dict"
            /\ bpc = "returned" => InFailed(f) /\ ~InSuccess(f)

\* ---- C4 ------------------------------------------------------------------
\* C4: after a precreate response with a non-zero errno the pipeline fails
\* without retry: that precreate is the only remote call of the attempt.
C4_RejectedAnnounceStops ==
    \A f \in Files :
        AnnounceRejected(f) =>
            /\ Len(calls[f]) = 1
            /\ result[f].kind = "None"

C4_Witness ==
    \E f \in Files : AnnounceRejected(f) /\ pc[f] = "done"

\* ---- C5 ------------------------------------------------------------------
\* C5: every upload_part call of a file goes to the first server of the
\* file's locateupload response; after an empty or missing server set the
\* file fails and neither upload_part nor create is called.
C5_FirstEndpointOrFail ==
    \A f \in Files :
        /\ \A k \in Calls(f, "upload_part") :
              \E j \in Calls(f, "locateupload") :
                  /\ j < k
                  /\ calls[f][j].resp.http = "ok"
                  /\ Has(calls[f][j].resp.body, "servers")
                  /\ calls[f][j].resp.body.servers # <<>>
                  /\ calls[f][k].url = calls[f][j].resp.body.servers[1].server
        /\ EndpointSetEmpty(f) =>
              /\ Calls(f, "upload_part") = {} /\ Calls(f, "create") = {}
              /\ result[f].kind = "None"

\* two blocks were transferred, and elsewhere a file failed on an empty set
C5_Witness ==
    \E f \in Files :
        /\ pc[f] = "done"
        /\ Cardinality(Calls(f, "upload_part")) >= 2
        /\ Calls(f, "create") # {}

\* ---- C6 ------------------------------------------------------------------
\* a stage of the pipeline of f failed without an exception reaching
\* _upload_file_multi / _upload_file_loop
StageFailed(f) ==
    \/ \E k \in Calls(f, "precreate") :
          /\ calls[f][k].resp.http = "ok"
          /\ \/ ~Has(calls[f][k].resp.body, "errno")
             \/ calls[f][k].resp.body.errno # 0
    \/ EndpointSetEmpty(f)
    \/ HasFailedPart(f)

BlockErrors(f) ==
    {PartError(calls[f][k].resp) : k \in {j \in Calls(f, "upload_part") :
                                            FailedPart(f, calls[f][j])}}

C8_BatchAccounting ==
    bpc = "returned" =>
        /\ \A f \in Files : pc[f] = "done"
        /\ Len(results.success) + Len(results.failed) = nfiles
        /\ results.total = nfiles

\* a batch of two files run by two workers returned one success, one failure
C8_Witness ==
    /\ bpc = "returned" /\ nfiles >= 2 /\ file_workers >= 2
    /\ Len(results.success) >= 1 /\ Len(results.failed) >= 1

\* ---- C9 ------------------------------------------------------------------
\* every remote call of file f so far was answered favourably
AllCallsOk(f) ==
    \A k \in 1..Len(calls[f]) :
        LET c == calls[f][k] IN
        /\ c.resp.http = "ok"
        /\ c.op \in {"precreate", "create"} =>
              Has(c.resp.body, "errno") /\ c.resp.body.errno = 0
        /\ c.op = "locateupload" =>
              Has(c.resp.body, "servers") /\ c.resp.body.servers # <<>>
        /\ c.op = "upload_part" => VerifiedPart(f, c)

\* exactly one call of file f went wrong: an upload_part echoing another md5
OnlyOneMismatch(f) ==
    \E k \in Calls(f, "upload_part") :
        /\ calls[f][k].resp.http = "ok"
        /\ Has(calls[f][k].resp.body, "md5")
        /\ calls[f][k].resp.body.md5 # plan[f].block_list[calls[f][k].partseq + 1]
        /\ \A j \in 1..Len(calls[f]) : j # k =>
              LET c == calls[f][j] IN
              /\ c.resp.http = "ok"
              /\ c.op = "precreate" => Has(c.resp.body, "errno") /\ c.resp.body.errno = 0
              /\ c.op = "locateupload" =>
                    Has(c.resp.body, "servers") /\ c.resp.body.servers # <<>>
              /\ c.op = "upload_part" => VerifiedPart(f, c)
              /\ c.op # "create"

SuccessFiles == {results.success[k].local_path : k \in 1..Len(results.success)}
FailedFiles == {results.failed[k].local_path : k \in 1..Len(results.failed)}

\* C9: in a returned batch in which exactly file K had a block echo a wrong
\* md5 and every other remote call succeeded, 'failed' holds exactly K,
\* 'success' holds exactly the other files, and total = N.
C9_OnlyMismatchedFileFails ==
    \A K \in Files :
        (/\ bpc = "returned"
         /\ OnlyOneMismatch(K)
         /\ \A f \in Files \ {K} : AllCallsOk(f))
        =>
        /\ FailedFiles = {K} /\ Len(results.failed) = 1
        /\ SuccessFiles = Files \ {K} /\ Len(results.success) = nfiles - 1
        /\ results.total = nfiles

\* such a batch of at least two files, the mismatch behind a verified block
C9_Witness ==
    \E K \in Files :
        /\ bpc = "returned" /\ nfiles >= 2
        /\ OnlyOneMismatch(K)
        /\ \E k \in Calls(K, "upload_part") : VerifiedPart(K, calls[K][k])
        /\ \A f \in Files \ {K} : AllCallsOk(f)

\* ---- C10 -----------------------------------------------------------------
\* the pipeline of f ran its own course: it issued calls, and it stopped at
\* create or at a call of its own that went wrong
RanOwnCourse(f) ==
    /\ calls[f] # <<>>
    /\ LET c == calls[f][Len(calls[f])] IN
          \/ c.op = "create"
          \/ c.resp.http # "ok"
          \/ c.op = "precreate" /\ PrecreateRejected(c.resp.body)
          \/ c.op = "locateupload" /\ NoServers(c.resp.body)
          \/ c.op = "upload_part" /\ FailedPart(f, c)

\* C10: a file whose pipeline returned None or raised is listed in 'failed'
\* and nothing else happens to the batch: when upload_folder returns, every
\* file has run its own pipeline to its end and is listed exactly once, in
\* 'success' when all of its own calls succeeded.
C10_FailureIsIsolated ==
    bpc = "returned" =>
        \A f \in Files :
            /\ pc[f] = "done" /\ RanOwnCourse(f)
            /\ result[f].kind \in {"None", "raise"} => InFailed(f) /\ ~InSuccess(f)
            /\ AllCallsOk(f) => InSuccess(f) /\ ~InFailed(f)
            /\ Cardinality({k \in 1..Len(results.failed) :
                               results.failed[k].local_path = f})
               + Cardinality({k \in 1..Len(results.success) :
                               results.success[k].local_path = f}) = 1

\* a batch returned in which the first file raised, and a later file, started
\* after that, succeeded
C10_Witness ==
    /\ bpc = "returned" /\ nfiles >= 2 /\ file_workers = 1
    /\ result[1].kind = "raise"
    /\ \E f \in Files : f > 1 /\ AllCallsOk(f) /\ InSuccess(f)

\* ---- C11 -----------------------------------------------------------------
\* C11: upload_folder on a directory with at least one matching file never
\* aborts the run with an exception, whatever file_max_workers is (the
\* default derived from the CPU count included): it runs the file tasks and
\* returns the results dict.
C11_BatchNeverAborts ==
    mode = "batch" /\ nfiles >= 1 => bpc # "raised"

\* ---- C12 -----------------------------------------------------------------
\* C12: in _upload_file_multi, once the failure of a block task has been
\* caught, the block tasks of the file that are still queued are aborted:
\* none of them starts its upload_part call.
C12_QueuedTasksAborted ==
    [][\A f \in Files :
          mode = "single" /\ pc[f] = "shutdown" =>
              \A i \in DOMAIN task :
                  task[i] = "queued" => task'[i] # "inflight"]_vars

\* ---- C13 -----------------------------------------------------------------
\* C13: no increment of progress["uploaded"] is lost: when every block task
\* of a file has completed successfully, uploaded = total, whatever the
\* interleaving of the pool threads.
C13_NoIncrementLost ==
    \A f \in Files :
        (/\ mode = "single" /\ pc[f] \in {"create", "done"}
         /\ DOMAIN task # {}
         /\ \A i \in DOMAIN task : task[i] = "ok")
        => progress[f].uploaded = progress[f].total

\* ---- C14 -----------------------------------------------------------------
\* C14: in upload_folder a file task transfers its blocks on a pool of its
\* own of up to chunk_max_workers threads: while a block of the file is in
\* flight, chunk_max_workers is 2 or more and a further block is left to
\* read, the file task can read and send that block.
C14_OwnBlockPool ==
    \A f \in Files :
        (/\ mode = "batch" /\ pc[f] = "inflight"
         /\ chunk_max_workers >= 2
         /\ idx[f] + 1 < Len(plan[f].block_list)
         /\ ReadLen(fsize[f], idx[f] + 1, plan[f].block_size) > 0)
        => ENABLED Loop_ReadChunk(f)

\* ---- C15 -----------------------------------------------------------------
\* the larger of two numbers
Max(a, b) == IF a > b THEN a ELSE b

\* C15: the block pool of a file has size min(configuredWorkers, blockCount)
\* with configuredWorkers = max(CPU count - 1, 1) when max_workers is not
\* given; it is at least 1 for a file of at least one block.
C15_PoolAtLeastOne ==
    \A f \in Files :
        mode = "single" /\ pc[f] = "pool" /\ Len(plan[f].block_list) >= 1 =>
            LET n == Len(plan[f].block_list)
                configured == IF max_workers = NoneWorkers
                              THEN Max(cpu_count - 1, 1) ELSE max_workers
            IN /\ PoolSize(cpu_count, max_workers, n) = Min(configured, n)
               /\ PoolSize(cpu_count, max_workers, n) >= 1

\* ---- C16 -----------------------------------------------------------------
\* block size of the account tier, in bytes
TierBlockSize ==
    IF userinfo.present /\ userinfo.viptype = 1 THEN 16 * 1024 * 1024
    ELSE IF userinfo.present /\ userinfo.viptype = 2 THEN 32 * 1024 * 1024
    ELSE 4 * 1024 * 1024

Planned(f) == pc[f] \notin {"queued", "plan"}

\* C16: every per-file pipeline, of upload_file and of upload_folder alike,
\* plans with the block size of the account tier.
C16_TierBlockSizeEverywhere ==
    \A f \in Files : Planned(f) => plan[f].block_size = TierBlockSize

\* ---- C17 -----------------------------------------------------------------
\* C17: a file is split into blocks of bs MiB: the block hash list and the
\* chunk offsets are derived from bs * 1024 * 1024.
C17_BlockSizeIsBs ==
    \A f \in Files :
        Planned(f) =>
            /\ plan[f].block_size = bs * 1024 * 1024
            /\ Len(plan[f].block_list)
                 = CeilDiv(plan[f].file_size, bs * 1024 * 1024)
            /\ \A k \in Calls(f, "upload_part") :
                  calls[f][k].offset = calls[f][k].partseq * bs * 1024 * 1024

\* ---- C18 -----------------------------------------------------------------
\* the byte range the plan of f assigns to block i: its offset and length
PlannedOffset(f, i) == i * plan[f].block_size

PlannedLen(f, i) ==
    Min(plan[f].file_size, (i + 1) * plan[f].block_size) - PlannedOffset(f, i)

RECURSIVE SumSeq(_)
SumSeq(q) == IF q = <<>> THEN 0 ELSE Head(q) + SumSeq(Tail(q))

\* the file of f is as it was when it was planned (a file only ever shrinks)
Unmodified(f) == fsize[f] = plan[f].file_size

Replanned(f) ==
    [file_size |-> fsize[f], block_size |-> plan[f].block_size,
     content_md5 |-> calculate_md5(f, fsize[f]),
     slice_md5 |-> calculate_slice_md5(f, fsize[f]),
     block_list |-> get_file_md5_blocks(f, fsize[f], plan[f].block_size)]

C20_CreateRepeatsAnnounce ==
    \A f \in Files :
        \A k \in Calls(f, "create") :
            /\ calls[f][k].block_list = json_dumps(plan[f].block_list)
            /\ calls[f][k].rtype = rtype
            /\ \E j \in Calls(f, "precreate") :
                  /\ j < k
                  /\ calls[f][j].block_list = calls[f][k].block_list
                  /\ calls[f][j].rtype = calls[f][k].rtype

\* create was called with rtype 3 after block 1 had completed before block 0
C20_Witness ==
    \E f \in Files :
        /\ Calls(f, "create") # {} /\ rtype = 3
        /\ \E j, k \in Calls(f, "upload_part") :
              j < k /\ calls[f][j].partseq = 1 /\ calls[f][k].partseq = 0

\* ---- C21 -----------------------------------------------------------------
\* the uploadids issued to file g: those of its accepted precreate responses
IssuedTo(g) ==
    {calls[g][j].resp.body.uploadid :
        j \in {k \in Calls(g, "precreate") :
                  /\ calls[g][k].resp.http = "ok"
                  /\ Has(calls[g][k].resp.body, "uploadid")}}

\* C21: every upload_part and create call of a file carries the uploadid
\* its own precreate returned, in the call record and in the request sent;
\* no call of a file carries an uploadid issued to another file.
C21_UploadIdIsOwn ==
    \A f \in Files :
        \A k \in Calls(f, "upload_part") \cup Calls(f, "create") :
            /\ calls[f][k].uploadid \in IssuedTo(f)
            /\ IF calls[f][k].op = "create"
               THEN calls[f][k].req.data.uploadid = Some(calls[f][k].uploadid)
               ELSE calls[f][k].req.params.uploadid = Some(calls[f][k].uploadid)
            /\ \A g \in Files \ {f} : calls[f][k].uploadid \notin IssuedTo(g)

\* two files of a batch run by two workers were both finalized
C21_Witness ==
    \E f, g \in Files :
        /\ f # g /\ mode = "batch"
        /\ Calls(f, "create") # {} /\ Calls(g, "create") # {}
        /\ file_workers >= 2

\* ---- C23 -----------------------------------------------------------------
\* C23: when no file remains after exclusion, upload_folder returns empty
\* lists and all-zero counts; it does not raise, builds no pool and makes no
\* remote call.
C23_EmptyBatchReturnsZeros ==
    mode = "batch" /\ nfiles = 0 /\ bpc # "start" =>
        /\ bpc = "returned"
        /\ results.success = <<>> /\ results.failed = <<>>
        /\ results.success_count = 0 /\ results.failed_count = 0
        /\ results.total = 0
        /\ file_workers = 0
        /\ \A f \in DOMAIN calls : calls[f] = <<>>

\* upload_folder has returned from an empty directory on a one-CPU host
C23_Witness ==
    mode = "batch" /\ nfiles = 0 /\ bpc = "returned"
        /\ max_workers = NoneWorkers /\ cpu_count = 1

\* ---- C24 -----------------------------------------------------------------
\* C24: Auth.request_json raises whenever the parsed response carries a
\* non-zero errno; it returns a dict only for errno = 0.
C24_NonZeroErrnoRaises ==
    \A f \in Files :
        \A k \in Calls(f, "precreate") \cup Calls(f, "create") :
            LET r == calls[f][k].resp IN
            /\ (r.http = "ok" /\ Has(r.body, "errno") /\ r.body.errno # 0)
                  => request_json(r).raised
            /\ ~request_json(r).raised
                  => Has(r.body, "errno") /\ r.body.errno = 0

\* ---- C25 -----------------------------------------------------------------
\* C25: the body of the create request of a pipeline, which provides none
\* of local_ctime, local_mtime, is_revision and mode, holds none of them.
C25_OptionalFieldsAbsent ==
    \A f \in Files :
        \A k \in Calls(f, "create") :
            DOMAIN calls[f][k].req.data
                \cap {"local_ctime", "local_mtime", "is_revision", "mode"} = {}

\* ---- C27 -----------------------------------------------------------------
\* position of a remote call in the pipeline
Stage(op) ==
    IF op = "precreate" THEN 1 ELSE IF op = "locateupload" THEN 2
    ELSE IF op = "upload_part" THEN 3 ELSE 4

\* call c of file f went wrong
CallFailed(f, c) ==
    \/ c.resp.http # "ok"
    \/ c.op = "precreate" /\ PrecreateRejected(c.resp.body)
    \/ c.op = "locateupload" /\ NoServers(c.resp.body)
    \/ c.op = "upload_part" /\ FailedPart(f, c)

\* C27: the remote calls of a file occur in the order precreate,
\* locateupload, upload_part calls, create; precreate, locateupload and
\* create at most once each, each block index at most once; after a call
\* that went wrong no other stage is entered.
C27_StagesInOrderOnce ==
    \A f \in Files :
        /\ \A j, k \in 1..Len(calls[f]) :
              j < k => Stage(calls[f][j].op) <= Stage(calls[f][k].op)
        /\ \A op \in {"precreate", "locateupload", "create"} :
              Cardinality(Calls(f, op)) <= 1
        /\ \A j, k \in Calls(f, "upload_part") :
              calls[f][j].partseq = calls[f][k].partseq => j = k
        /\ \A j, k \in 1..Len(calls[f]) :
              j < k /\ CallFailed(f, calls[f][j]) =>
                  calls[f][j].op = "upload_part" /\ calls[f][k].op = "upload_part"

\* a file of a batch went through all four stages, two blocks in the third
C27_Witness ==
    \E f \in Files :
        /\ mode = "batch" /\ Len(calls[f]) = 5
        /\ calls[f][5].op = "create"

\* ---- C28 -----------------------------------------------------------------
\* C28: whenever no thread holds results_lock, success_count = len(success)
\* and failed_count = len(failed).
C28_CountsMatchListsWhenUnlocked ==
    mode = "batch" /\ results_lock = 0 =>
        /\ results.success_count = Len(results.success)
        /\ results.failed_count = Len(results.failed)

\* the lock is free while the batch runs: one file task has recorded a
\* failure and another is about to record its outcome
C28_Witness ==
    /\ bpc = "running" /\ results_lock = 0
    /\ results.failed_count = 1 /\ Len(results.failed) = 1
    /\ \E f \in Files : pc[f] = "record"

\* ---- C29 -----------------------------------------------------------------
\* the thread of file f is at a remote call or has one in flight
AtRemoteCall(f) ==
    pc[f] \in {"precreate", "locate", "blocks", "inflight", "create", "pool",
               "submit", "wait", "shutdown"}

\* C29: a thread that holds results_lock is past its pipeline, at the
\* append/increment; no thread with a remote call in flight holds
\* results_lock or the progress lock of its file.
C29_NoLockAcrossRemoteCall ==
    \A f \in Files :
        /\ results_lock = f => pc[f] = "locked" /\ ~AtRemoteCall(f)
        /\ AtRemoteCall(f) => results_lock # f /\ ~ProgressLockHeld(f)
        /\ mode = "single" =>
              \A i \in DOMAIN task :
                  task[i] = "inflight" => ~ProgressLockHeld(f)

\* one file task holds results_lock while another has a block in flight
C29_Witness ==
    \E f, g \in Files :
        f # g /\ results_lock = f /\ pc[g] = "inflight"

\* ---- C30 -----------------------------------------------------------------
\* C30: precreate and locateupload are both sent through Auth.request: the
\* URL parameters of each carry the access_token.
C30_NegotiationCarriesToken ==
    \A f \in Files :
        \A k \in Calls(f, "precreate") \cup Calls(f, "locateupload") :
            Has(calls[f][k].req.params, "access_token")

\* ---- C22 -----------------------------------------------------------------
\* the files of the tree that no pattern excludes: no pattern matches the
\* base name or any segment of the relative path
Unexcluded ==
    {e.path : e \in {x \in tree :
        /\ x.is_file
        /\ \A i \in 1..Len(exclude_patterns) :
              \A k \in 1..Len(x.path) :
                  ~fnmatch(x.path[k], exclude_patterns[i])}}

\* the tree {a.tmp, node_modules/x.js, keep.txt} with the patterns
\* ['*.tmp', 'node_modules']
ExampleTree ==
    /\ tree = TreeOf({<<Name_a_tmp>>, <<Name_node_modules, Name_x_js>>,
                      <<Name_keep_txt>>})
    /\ exclude_patterns = <<Pattern_tmp, Name_node_modules>>

\* C22: upload_folder enumerates exactly the regular files under the root
\* that no exclude pattern matches by base name or by a path segment, each
\* once; for the example tree that is exactly keep.txt.
C22_EnumeratesUnexcludedFiles ==
    epc = "done" =>
        /\ {files_to_upload[k] : k \in 1..Len(files_to_upload)} = Unexcluded
        /\ Len(files_to_upload) = Cardinality(Unexcluded)
        /\ ExampleTree => files_to_upload = <<<<Name_keep_txt>>>>

\* the example tree was enumerated
C22_Witness ==
    epc = "done" /\ ExampleTree /\ Len(files_to_upload) = 1

\* ---- C26 -----------------------------------------------------------------
\* C26: get_file_list returns all entries of the directory: its list is the
\* concatenation of the pages up to the page that reports has_more != 1,
\* and total is the length of the list.
C26_ListIsWholeDirectory ==
    lpc = "returned" =>
        /\ get_file_list_result.list = [k \in 1..remote |-> k]
        /\ get_file_list_result.total = Len(get_file_list_result.list)
        /\ get_file_list_result.has_more # 1

\* ---- C31 -----------------------------------------------------------------
\* the block tasks of the single-file pipeline that were submitted all
\* returned normally
AllTasksOk == \A i \in Submitted : task[i] = "ok"

\* C31: the progress counter is observational only.  Once the pool of a file
\* pipeline has been opened, create is called exactly when every submitted
\* block task returned normally, whatever value the counter has (the counter
\* varies between runs with the same task results, because concurrent
\* increments can be lost), and the outcome is the parsed answer of create.
C31_CounterNeverDecides ==
    \A f \in Files :
        (mode = "single" /\ pool > 0) =>
            /\ Calls(f, "create") # {} => AllTasksOk
            /\ (pc[f] = "done" /\ AllTasksOk) =>
                  /\ Calls(f, "create") # {}
                  /\ calls[f][Len(calls[f])].op = "create"
                  /\ LET out == request_json(calls[f][Len(calls[f])].resp) IN
                       result[f] = IF out.raised THEN Raised(out.error)
                                   ELSE Returned(out.value)

\* a file was finalized although its counter stayed below its total
C31_Witness ==
    \E f \in Files :
        /\ mode = "single" /\ pc[f] = "done" /\ pool > 0 /\ AllTasksOk
        /\ Calls(f, "create") # {}
        /\ progress[f].uploaded < Cardinality(Submitted)

\* ---- C32 -----------------------------------------------------------------
\* a pass of the loop that obtained a page: it moved the cursor or cleared
\* has_more (a failed pass changes the failure counter only)
PageObtained == cursor' # cursor \/ has_more' # has_more

\* C32: get_file_list counts consecutive failed fetches, every obtained page
\* resets the count to 0, it returns only after a page reported
\* has_more != 1 or after 5 failures in a row, and it does return.
C32_GivesUpOrFinishes ==
    /\ [](tries <= max_tries)
    /\ [](lpc = "returned" => (~has_more \/ tries = max_tries))
    /\ [][/\ PageObtained => tries' = 0
          /\ (lpc = "loop" /\ lpc' = "loop" /\ ~PageObtained)
                => tries' = tries + 1]_vars
    /\ <>(lpc = "returned")

\* a page was obtained, then five fetches in a row failed and the listing
\* gave up
C32_Witness ==
    /\ lpc = "returned" /\ has_more /\ tries = max_tries
    /\ Len(all_list) > 0

\* ---- C33 -----------------------------------------------------------------
\* get_access_token has just handed its result to thread t
HandedTo(t) == aout[t].kind = "pending" /\ aout'[t].kind # "pending"

\* C33: get_access_token returns a non-empty token whose expires_at is more
\* than REFRESH_THRESHOLD seconds after the current time, or it raises
\* AuthError.
C33_ReturnedTokenIsValid ==
    [][\A t \in Threads :
          HandedTo(t) =>
              \/ /\ aout'[t].kind = "str" /\ aout'[t].token # ""
                 /\ expires_at' > now' + REFRESH_THRESHOLD
              \/ aout'[t] = TokenRaised("AuthError")]_vars

\* ---- C34 -----------------------------------------------------------------
\* C34: when several threads call Auth.request while the stored token is
\* expired, no refresh_token value is presented to the token endpoint more
\* than once (so at most one refresh request is sent for it).
C34_RefreshTokenPresentedOnce ==
    \A i, j \in 1..Len(refresh_log) :
        refresh_log[i] = refresh_log[j] => i = j

\* ---- C35 -----------------------------------------------------------------
\* the field of a token answer, at the top level or under "data", "" when
\* it is absent
Field(body, key) ==
    IF Has(body, key) THEN body[key]
    ELSE IF Has(body, "data") /\ Has(body["data"], key) THEN body["data"][key]
    ELSE JStr("")

\* the number a value of expires_in stands for
Seconds(v) == IF v.type = "int" THEN v.n ELSE IntOfFloat(v.s).n

\* a token answer that has to be rejected: access_token or refresh_token
\* missing, or expires_in missing, unparsable, negative or >= 20 years
MustReject(body) ==
    LET e == Field(body, "expires_in") IN
    \/ Field(body, "access_token") = JStr("")
    \/ Field(body, "refresh_token") = JStr("")
    \/ e = JStr("") \/ e = JInt(0)
    \/ e.type = "str" /\ ~IntOfFloat(e.s).ok
    \/ e.type \in {"int", "str"} /\ Seconds(e) < 0
    \/ e.type \in {"int", "str"} /\ Seconds(e) >= TwentyYears

\* thread t has just received a parsed token answer
Answered(t) ==
    /\ apc[t] \in {"refreshing", "authorize"} /\ apc'[t] = "done"
    /\ aresp'[t].http = "ok"

HashedFrom(f, i) == i * plan[f].block_size
HashedTo(f, i) == Min((i + 1) * plan[f].block_size, plan[f].file_size)

IsRegularFile == filebd <= dir_size /\ Entry(filebd).isdir = 0

\* C37: downfile resolves every path that is a regular file of its parent
\* directory to that file's fs_id, however many entries the directory
\* holds: it never reports such a file as missing, and the fs_id it goes on
\* with is the file's.
C37_ResolvesEveryRegularFile ==
    /\ dpc = "missing" => ~IsRegularFile
    /\ dpc \in {"metas", "nometa", "download"} =>
          IsRegularFile /\ fs_id = Entry(filebd).fs_id

=============================================================================
